---------------------------- MODULE RuntimeProofs ----------------------------
(***************************************************************************)
(* Proofs about what the program starts, times, configures, keeps and      *)
(* stops: the cancellation token, whose module this one extends, the       *)
(* engine's lifecycle, the controller's servers, TUN mode, the timer       *)
(* wheel, the configuration of the process, the outbound registry and the  *)
(* content of its providers, the pool of fake addresses and the table of   *)
(* UDP sessions of the outbounds that answer through sinks. A theorem is   *)
(* about the specification of one module, for every value of that module's *)
(* constants; where two modules give a parameter the same name, each       *)
(* theorem speaks of its own.                                              *)
(***************************************************************************)
EXTENDS CancelToken, SequenceTheorems, Integers, FiniteSetTheorems, Naturals, FiniteSets, TLAPS

CONSTANTS Callers, Sessions, NListeners, MaxGens, MaxOps, None, Servers, Idle,
          HeadDeadline, HeadGap, BodyDeadline, BodyGap, PingInterval, MaxRequests,
          MaxAhead, OneShots, Periodics, Period, Delays, MaxTime, Docs, NodesOf, Group,
          Builtins, MaxCalls, Names, Filtered, Hosted, PolicyBound, Slots, Ttl,
          MaxClear, Clients, Addresses, Targets, Workers, MaxSessions, MaxOwed, Leaves,
          Groups, Nodes, HasPath, MaxReloads, MaxRefresh, NoCache, Loaders, Documents,
          Good, Platforms, Modes, MaxEnable, MaxLegacy

VARIABLES inst, gens, readers, writer, queued, up, running, updater, dns, ctrl, cpc,
          at, ops, solo, last, live, served, late, tracked, token, server, secret,
          phase, wait, ahead, frag, got, begun, age, framed, told, ended, engine,
          calls, ws, now, heap, entries, nextId, shutdown, handle, flag, tpc, wakeAt,
          cur, dpc, fired, first, rprovs, pprovs, lock, call, built, fwd, back, next,
          packet, reaper, clearing, clears, handed, raced, outbound, sink, address,
          stage, sinks, target, owed, table, job, crossed, conf, registry, tags,
          loaded, nodes, remote, cache, rpc, rtodo, rtags, upc, ucur, reloads,
          refreshes, result, fresh, kind, cached, configs, proxies, health, updated,
          registered, thread, os, step, want, used, local, dev, reader, loop,
          processor, devSlot, procSlot, managed, kernel, abandoned, mode, trusted,
          pinned, vpnFd, legacy, legacyCalls, report, overlapped

Active == {"notify", "take", "run"}

\* The swap elects a single winner, and no call of cancel() is past the swap
\* before the flag is set.
OneWinner ==
  /\ \A c \in Cancellers : pc[c] # "idle" => cancelled
  /\ \A c, d \in Cancellers : pc[c] \in Active /\ pc[d] \in Active => c = d
  /\ cancelled => \E c \in Cancellers : pc[c] # "idle"

\* The two mutexes are held exactly where the code holds a guard.
LockOwners ==
  /\ \A r \in Registrars : pc[r] \in {"recheck", "push"} => hooksLock = r
  /\ \A w \in Waiters : pc[w] \in {"recheck", "park"} => wakeLock = w

\* A waiter that has seen the flag clear under the wake mutex and is parked, or
\* about to park, when the flag is set still has its notification coming.
WakeupComing ==
  \A w \in Waiters :
    pc[w] \in {"park", "parked"} /\ cancelled => \E c \in Cancellers : pc[c] = "notify"

WakeInv == TypeOK /\ OneWinner /\ LockOwners /\ WakeupComing

-----------------------------------------------------------------------------
(* Where a hook can be                                                     *)

In(r, q) == \E i \in 1..Len(q) : q[i] = r
NoRepeat(q) == \A i, j \in 1..Len(q) : q[i] = q[j] => i = j

\* A hook is at exactly one place: with its registrar, in the list, with the
\* winner, or run.
HookPlace ==
  /\ NoRepeat(hooks) /\ NoRepeat(taken)
  /\ \A r \in Registrars : In(r, hooks) => ~In(r, taken)
  /\ \A r \in Registrars : In(r, hooks) \/ In(r, taken) => pc[r] = "done" /\ ran[r] = 0
  /\ \A r \in Registrars : pc[r] # "done" => ran[r] = 0
  /\ \A r \in Registrars : ran[r] \in {0, 1}
  /\ \A r \in Registrars : pc[r] = "done" => ran[r] = 1 \/ In(r, hooks) \/ In(r, taken)

\* Whatever is in the list, or will be pushed to it, when the flag is set is
\* still ahead of the winner's take; what the winner holds it is running.
HookComing ==
  /\ cancelled /\ (hooks # <<>> \/ \E r \in Registrars : pc[r] = "push")
       => \E c \in Cancellers : pc[c] \in {"notify", "take"}
  /\ taken # <<>> => \E c \in Cancellers : pc[c] = "run"

HookInv == WakeInv /\ HookPlace /\ HookComing

-----------------------------------------------------------------------------
(* Type correctness                                                        *)

\* The part of TypeOK about control states.
PcTyped ==
  /\ pc \in [Threads -> CancellerStates \cup RegistrarStates \cup WaiterStates]
  /\ \A c \in Cancellers : pc[c] \in CancellerStates
  /\ \A r \in Registrars : pc[r] \in RegistrarStates
  /\ \A w \in AllWaiters : pc[w] \in WaiterStates

\* A thread that moves to a state of its own role leaves the types alone.
LEMMA GotoTyped ==
  ASSUME PcTyped, NEW t \in Threads, NEW from, NEW to, Goto(t, from, to),
         t \in Cancellers => to \in CancellerStates,
         t \in Registrars => to \in RegistrarStates,
         t \in AllWaiters => to \in WaiterStates
  PROVE  PcTyped'
BY DistinctThreads DEF PcTyped, Goto, Threads, AllWaiters

\* Every step of a cancel() call keeps the types.
LEMMA CancelTyped ==
  ASSUME TypeOK, NEW c \in Cancellers, Cancel(c)
  PROVE  TypeOK'
<1>0. c \in Threads /\ c \notin Registrars /\ c \notin AllWaiters /\ PcTyped
  BY DistinctThreads DEF Threads, TypeOK, PcTyped
<1>1. CASE CancelSwap(c)
  <2>1. PcTyped'
    BY <1>0, <1>1, GotoTyped DEF CancelSwap, CancellerStates
  <2> QED BY <2>1, <1>1 DEF CancelSwap, TypeOK, PcTyped
<1>2. CASE CancelNotify(c)
  <2>1. PcTyped'
    BY <1>0, <1>2, DistinctThreads
    DEF CancelNotify, PcTyped, CancellerStates, WaiterStates, RegistrarStates, Threads, AllWaiters
  <2> QED BY <2>1, <1>2 DEF CancelNotify, TypeOK, PcTyped
<1>3. CASE CancelTake(c)
  <2>1. PcTyped'
    BY <1>0, <1>3, GotoTyped DEF CancelTake, CancellerStates
  <2> QED BY <2>1, <1>3 DEF CancelTake, TypeOK, PcTyped
<1>4. CASE CancelRunHook(c)
  <2>1. Head(taken) \in Registrars /\ Tail(taken) \in Seq(Registrars)
    BY <1>4 DEF CancelRunHook, TypeOK
  <2> QED BY <2>1, <1>4 DEF CancelRunHook, TypeOK
<1>5. CASE CancelReturn(c)
  <2>1. PcTyped'
    BY <1>0, <1>5, GotoTyped DEF CancelReturn, CancellerStates
  <2> QED BY <2>1, <1>5 DEF CancelReturn, TypeOK, PcTyped
<1> QED BY <1>1, <1>2, <1>3, <1>4, <1>5 DEF Cancel

\* Every step of an on_cancel() call keeps the types.
LEMMA OnCancelTyped ==
  ASSUME TypeOK, NEW r \in Registrars, OnCancel(r)
  PROVE  TypeOK'
<1>0. r \in Threads /\ r \notin Cancellers /\ r \notin AllWaiters /\ PcTyped
  BY DistinctThreads DEF Threads, TypeOK, PcTyped
<1>1. CASE OnCancelCheck(r)
  <2>1. PcTyped'
    BY <1>0, <1>1, GotoTyped DEF OnCancelCheck, RegistrarStates
  <2> QED BY <2>1, <1>1 DEF OnCancelCheck, TypeOK, PcTyped
<1>2. CASE OnCancelLock(r)
  <2>1. PcTyped'
    BY <1>0, <1>2, GotoTyped DEF OnCancelLock, RegistrarStates
  <2> QED BY <2>1, <1>2 DEF OnCancelLock, TypeOK, PcTyped
<1>3. CASE OnCancelRecheck(r)
  <2>1. PcTyped'
    BY <1>0, <1>3, GotoTyped DEF OnCancelRecheck, RegistrarStates
  <2> QED BY <2>1, <1>3 DEF OnCancelRecheck, TypeOK, PcTyped
<1>4. CASE OnCancelPush(r)
  <2>1. PcTyped'
    BY <1>0, <1>4, GotoTyped DEF OnCancelPush, RegistrarStates
  <2> QED BY <2>1, <1>4 DEF OnCancelPush, TypeOK, PcTyped
<1>5. CASE OnCancelRunNow(r)
  <2>1. PcTyped'
    BY <1>0, <1>5, GotoTyped DEF OnCancelRunNow, RegistrarStates
  <2> QED BY <2>1, <1>5 DEF OnCancelRunNow, TypeOK, PcTyped
<1> QED BY <1>1, <1>2, <1>3, <1>4, <1>5 DEF OnCancel

\* Every step of a wait_cancelled() or wait(timeout) call keeps the types.
LEMMA WaitTyped ==
  ASSUME TypeOK, NEW w \in AllWaiters,
         \/ w \in Waiters /\ (WaitCancelled(w) \/ SpuriousWake(w))
         \/ w \in TimedWaiters /\ TimedWait(w)
  PROVE  TypeOK'
<1>0. w \in Threads /\ w \notin Cancellers /\ w \notin Registrars /\ PcTyped
  BY DistinctThreads DEF Threads, AllWaiters, TypeOK, PcTyped
<1>1. PICK from, to \in WaiterStates : Goto(w, from, to)
  BY DEF WaitCancelled, WaitCheck, WaitLock, WaitRecheck, WaitPark, WaitReturn, SpuriousWake,
         TimedWait, TimedCheck, TimedPark, TimedOut, TimedReturn, WaiterStates
<1>2. PcTyped'
  BY <1>0, <1>1, GotoTyped
<1>3. UNCHANGED <<cancelled, hooks, hooksLock, taken, ran, pushed, runLog>>
  BY DEF WaitCancelled, WaitCheck, WaitLock, WaitRecheck, WaitPark, WaitReturn, SpuriousWake,
         TimedWait, TimedCheck, TimedPark, TimedOut, TimedReturn
<1>4. wakeLock' \in Waiters \cup {NoThread}
  BY DEF WaitCancelled, WaitCheck, WaitLock, WaitRecheck, WaitPark, WaitReturn, SpuriousWake,
         TimedWait, TimedCheck, TimedPark, TimedOut, TimedReturn, TypeOK
<1> QED BY <1>2, <1>3, <1>4 DEF TypeOK, PcTyped

LEMMA TypeInit == Init => TypeOK
<1> SUFFICES ASSUME Init PROVE TypeOK
  OBVIOUS
<1>1. PcTyped
  BY DEF Init, PcTyped, CancellerStates, RegistrarStates, WaiterStates, Threads, AllWaiters
<1>2. \A q : q = <<>> => q \in Seq(Registrars)
  OBVIOUS
<1>3. ran \in [Registrars -> Nat]
  BY DEF Init
<1> QED BY <1>1, <1>2, <1>3 DEF Init, TypeOK, PcTyped

LEMMA TypeNext == TypeOK /\ [Next]_vars => TypeOK'
<1> SUFFICES ASSUME TypeOK, [Next]_vars PROVE TypeOK'
  OBVIOUS
<1>1. CASE UNCHANGED vars
  BY <1>1 DEF vars, TypeOK
<1>2. CASE Next
  BY <1>1, <1>2, CancelTyped, OnCancelTyped, WaitTyped DEF Next, AllWaiters, Finished
<1> QED BY <1>1, <1>2

\* Every variable of the token keeps its type, for any set of threads.
THEOREM TypeCorrect == Spec => []TypeOK
BY TypeInit, TypeNext, PTL DEF Spec

-----------------------------------------------------------------------------
(* No lost wake-up                                                         *)

\* What the steps of the three kinds of caller do to the state of others:
\* nobody but CancelNotify and the thread itself moves a thread.
LEMMA OnlySelfMoves ==
  ASSUME TypeOK, NEW t \in Threads, NEW from, NEW to, Goto(t, from, to)
  PROVE  /\ pc'[t] = to /\ pc[t] = from
         /\ \A s \in Threads : s # t => pc'[s] = pc[s]
BY DEF TypeOK, Goto

LEMMA WakeInit == Init => WakeInv
<1> SUFFICES ASSUME Init PROVE WakeInv
  OBVIOUS
<1>1. TypeOK
  BY TypeInit
<1>2. \A t \in Threads : pc[t] = "idle"
  BY DEF Init
<1> QED BY <1>1, <1>2 DEF Init, WakeInv, OneWinner, LockOwners, WakeupComing, Threads, Active

LEMMA WakeCancel ==
  ASSUME WakeInv, TypeOK', NEW c \in Cancellers, Cancel(c)
  PROVE  WakeInv'
<1>0. c \in Threads /\ Cancellers \subseteq Threads /\ Registrars \subseteq Threads
        /\ Waiters \subseteq Threads /\ c \notin Registrars /\ c \notin Waiters
        /\ TypeOK /\ Waiters \subseteq AllWaiters
  BY DistinctThreads DEF Threads, AllWaiters, WakeInv
<1>1. CASE CancelSwap(c)
  <2>1. PICK to : Goto(c, "idle", to) /\ to = IF cancelled THEN "done" ELSE "notify"
    BY <1>1 DEF CancelSwap
  <2>2. pc[c] = "idle" /\ pc'[c] = to /\ \A s \in Threads : s # c => pc'[s] = pc[s]
    BY <1>0, <2>1, OnlySelfMoves
  <2>3. cancelled' /\ UNCHANGED <<hooksLock, wakeLock>>
    BY <1>1 DEF CancelSwap
  <2>4. OneWinner'
    <3>1. CASE cancelled
      BY <1>0, <2>1, <2>2, <2>3, <3>1 DEF WakeInv, OneWinner, Active
    <3>2. CASE ~cancelled
      <4>1. \A d \in Cancellers : pc[d] = "idle"
        BY <3>2 DEF WakeInv, OneWinner
      <4> QED BY <1>0, <2>1, <2>2, <2>3, <3>2, <4>1 DEF OneWinner, Active
    <3> QED BY <3>1, <3>2
  <2>5. LockOwners'
    BY <1>0, <2>2, <2>3 DEF WakeInv, LockOwners
  <2>6. WakeupComing'
    BY <1>0, <2>1, <2>2, <2>3 DEF WakeInv, WakeupComing
  <2> QED BY <2>4, <2>5, <2>6 DEF WakeInv
<1>2. CASE CancelNotify(c)
  <2>1. /\ pc[c] = "notify" /\ pc'[c] = "take"
        /\ \A s \in Threads : s # c => \/ pc'[s] = pc[s]
                                       \/ s \in AllWaiters /\ pc'[s] = "woken"
        /\ \A w \in Waiters : pc'[w] # "parked"
        /\ wakeLock = NoThread
        /\ UNCHANGED <<cancelled, hooksLock, wakeLock>>
    BY <1>0, <1>2 DEF CancelNotify
  <2>2. OneWinner'
    BY <1>0, <2>1, DistinctThreads DEF WakeInv, OneWinner, Active, AllWaiters
  <2>3. LockOwners'
    BY <1>0, <2>1, DistinctThreads DEF WakeInv, LockOwners
  <2>4. \A w \in Waiters : pc[w] # "park"
    BY <1>0, <2>1, DistinctThreads DEF WakeInv, LockOwners, Threads
  <2>5. WakeupComing'
    BY <1>0, <2>1, <2>4 DEF WakeupComing
  <2> QED BY <2>2, <2>3, <2>5 DEF WakeInv
<1>3. CASE CancelTake(c) \/ CancelRunHook(c) \/ CancelReturn(c)
  <2>1. /\ pc[c] \in {"take", "run"}
        /\ pc'[c] \in {"run", "done"}
        /\ \A s \in Threads : s # c => pc'[s] = pc[s]
        /\ UNCHANGED <<cancelled, hooksLock, wakeLock>>
    BY <1>0, <1>3 DEF CancelTake, CancelRunHook, CancelReturn, Goto, TypeOK
  <2>2. OneWinner'
    BY <1>0, <2>1 DEF WakeInv, OneWinner, Active
  <2>3. LockOwners'
    BY <1>0, <2>1 DEF WakeInv, LockOwners
  <2>4. WakeupComing'
    BY <1>0, <2>1 DEF WakeInv, WakeupComing
  <2> QED BY <2>2, <2>3, <2>4 DEF WakeInv
<1> QED BY <1>1, <1>2, <1>3 DEF Cancel

LEMMA WakeOnCancel ==
  ASSUME WakeInv, TypeOK', NEW r \in Registrars, OnCancel(r)
  PROVE  WakeInv'
<1>0. r \in Threads /\ Cancellers \subseteq Threads /\ Registrars \subseteq Threads
        /\ Waiters \subseteq Threads /\ r \notin Cancellers /\ r \notin Waiters
        /\ TypeOK
  BY DistinctThreads DEF Threads, AllWaiters, WakeInv
<1>1. /\ \A s \in Threads : s # r => pc'[s] = pc[s]
      /\ UNCHANGED <<cancelled, wakeLock>>
  BY <1>0 DEF OnCancel, OnCancelCheck, OnCancelLock, OnCancelRecheck, OnCancelPush,
              OnCancelRunNow, Goto, TypeOK
<1>2. OneWinner'
  BY <1>0, <1>1 DEF WakeInv, OneWinner, Active
<1>3. WakeupComing'
  BY <1>0, <1>1 DEF WakeInv, WakeupComing
<1>4. LockOwners'
  <2>1. CASE OnCancelCheck(r) \/ OnCancelRunNow(r)
    BY <1>0, <1>1, <2>1 DEF OnCancelCheck, OnCancelRunNow, Goto, TypeOK, WakeInv, LockOwners
  <2>2. CASE OnCancelLock(r)
    BY <1>0, <1>1, <2>2, DistinctThreads
    DEF OnCancelLock, Goto, TypeOK, WakeInv, LockOwners, Threads
  <2>3. CASE OnCancelRecheck(r)
    BY <1>0, <1>1, <2>3 DEF OnCancelRecheck, Goto, TypeOK, WakeInv, LockOwners
  <2>4. CASE OnCancelPush(r)
    BY <1>0, <1>1, <2>4 DEF OnCancelPush, Goto, TypeOK, WakeInv, LockOwners
  <2> QED BY <2>1, <2>2, <2>3, <2>4 DEF OnCancel
<1> QED BY <1>2, <1>3, <1>4 DEF WakeInv

LEMMA WakeWait ==
  ASSUME WakeInv, TypeOK', NEW w \in Waiters, WaitCancelled(w) \/ SpuriousWake(w)
  PROVE  WakeInv'
<1>0. w \in Threads /\ Cancellers \subseteq Threads /\ Registrars \subseteq Threads
        /\ Waiters \subseteq Threads /\ w \notin Cancellers /\ w \notin Registrars
        /\ TypeOK
  BY DistinctThreads DEF Threads, AllWaiters, WakeInv
<1>1. /\ \A s \in Threads : s # w => pc'[s] = pc[s]
      /\ UNCHANGED <<cancelled, hooksLock>>
  BY <1>0 DEF WaitCancelled, WaitCheck, WaitLock, WaitRecheck, WaitPark, WaitReturn,
              SpuriousWake, Goto, TypeOK
<1>2. OneWinner'
  BY <1>0, <1>1 DEF WakeInv, OneWinner, Active
<1>3. CASE WaitCheck(w) \/ WaitReturn(w) \/ SpuriousWake(w)
  <2>1. pc'[w] \in {"done", "lock", "woken"} /\ UNCHANGED wakeLock
    BY <1>0, <1>3 DEF WaitCheck, WaitReturn, SpuriousWake, Goto, TypeOK
  <2>2. LockOwners' /\ WakeupComing'
    BY <1>0, <1>1, <2>1 DEF WakeInv, LockOwners, WakeupComing
  <2> QED BY <1>2, <2>2 DEF WakeInv
<1>4. CASE WaitLock(w)
  <2>1. pc'[w] = "recheck" /\ wakeLock = NoThread /\ wakeLock' = w
    BY <1>0, <1>4 DEF WaitLock, Goto, TypeOK
  <2>2. LockOwners'
    BY <1>0, <1>1, <2>1, DistinctThreads DEF WakeInv, LockOwners, Threads
  <2>3. WakeupComing'
    BY <1>0, <1>1, <2>1 DEF WakeInv, WakeupComing
  <2> QED BY <1>2, <2>2, <2>3 DEF WakeInv
<1>5. CASE WaitRecheck(w)
  <2>1. /\ pc[w] = "recheck"
        /\ pc'[w] = IF cancelled THEN "done" ELSE "park"
        /\ wakeLock' = IF cancelled THEN NoThread ELSE wakeLock
    BY <1>0, <1>5 DEF WaitRecheck, Goto, TypeOK
  <2>2. LockOwners'
    BY <1>0, <1>1, <2>1 DEF WakeInv, LockOwners
  <2>3. WakeupComing'
    BY <1>0, <1>1, <2>1 DEF WakeInv, WakeupComing
  <2> QED BY <1>2, <2>2, <2>3 DEF WakeInv
<1>6. CASE WaitPark(w)
  <2>1. pc[w] = "park" /\ pc'[w] = "parked" /\ wakeLock' = NoThread
    BY <1>0, <1>6 DEF WaitPark, Goto, TypeOK
  <2>2. LockOwners'
    BY <1>0, <1>1, <2>1 DEF WakeInv, LockOwners
  <2>3. WakeupComing'
    BY <1>0, <1>1, <2>1 DEF WakeInv, WakeupComing
  <2> QED BY <1>2, <2>2, <2>3 DEF WakeInv
<1> QED BY <1>3, <1>4, <1>5, <1>6 DEF WaitCancelled

LEMMA WakeTimed ==
  ASSUME WakeInv, TypeOK', NEW w \in TimedWaiters, TimedWait(w)
  PROVE  WakeInv'
<1>0. w \in Threads /\ Cancellers \subseteq Threads /\ Registrars \subseteq Threads
        /\ Waiters \subseteq Threads /\ w \notin Cancellers /\ w \notin Registrars
        /\ w \notin Waiters /\ TypeOK
  BY DistinctThreads DEF Threads, AllWaiters, WakeInv
<1>1. /\ \A s \in Threads : s # w => pc'[s] = pc[s]
      /\ UNCHANGED <<cancelled, hooksLock, wakeLock>>
  BY <1>0 DEF TimedWait, TimedCheck, TimedPark, TimedOut, TimedReturn, Goto, TypeOK
<1> QED BY <1>0, <1>1 DEF WakeInv, OneWinner, LockOwners, WakeupComing, Active

LEMMA WakeNext == WakeInv /\ [Next]_vars => WakeInv'
<1> SUFFICES ASSUME WakeInv, [Next]_vars PROVE WakeInv'
  OBVIOUS
<1>0. TypeOK'
  BY TypeNext DEF WakeInv
<1>1. CASE UNCHANGED vars
  BY <1>0, <1>1 DEF vars, WakeInv, OneWinner, LockOwners, WakeupComing, Active
<1>2. CASE Next
  BY <1>0, <1>1, <1>2, WakeCancel, WakeOnCancel, WakeWait, WakeTimed DEF Next, Finished
<1> QED BY <1>1, <1>2

\* wait_cancelled() never sleeps through notify_all, in any interleaving of any
\* number of callers (cancel.rs:79-98, 151-162).
THEOREM NoWakeupIsLost == Spec => []NoLostWakeup
<1>1. WakeInv => NoLostWakeup
  BY DEF WakeInv, WakeupComing, NoLostWakeup, Notified
<1> QED BY <1>1, WakeInit, WakeNext, PTL DEF Spec

-----------------------------------------------------------------------------
(* Every hook runs exactly once                                            *)

LEMMA InEmptySeq == \A r : ~In(r, <<>>) /\ NoRepeat(<<>>)
BY DEF In, NoRepeat

LEMMA AppendSeq ==
  ASSUME NEW S, NEW q \in Seq(S), NEW e \in S
  PROVE  /\ \A r \in S : In(r, Append(q, e)) <=> In(r, q) \/ r = e
         /\ NoRepeat(q) /\ ~In(e, q) => NoRepeat(Append(q, e))
<1>1. /\ Len(Append(q, e)) = Len(q) + 1 /\ Len(q) \in Nat
      /\ Append(q, e)[Len(q) + 1] = e
      /\ \A i \in 1..Len(q) : Append(q, e)[i] = q[i]
  OBVIOUS
<1> QED BY <1>1 DEF In, NoRepeat

LEMMA TailSeq ==
  ASSUME NEW S, NEW q \in Seq(S), q # <<>>
  PROVE  /\ \A r \in S : In(r, q) <=> In(r, Tail(q)) \/ r = Head(q)
         /\ NoRepeat(q) => NoRepeat(Tail(q)) /\ ~In(Head(q), Tail(q))
<1>1. /\ Len(q) \in Nat \ {0} /\ Len(Tail(q)) = Len(q) - 1 /\ Head(q) = q[1]
      /\ \A i \in 1..Len(Tail(q)) : Tail(q)[i] = q[i + 1]
  OBVIOUS
<1>2. \A r \in S : In(r, q) => In(r, Tail(q)) \/ r = Head(q)
  <2> SUFFICES ASSUME NEW r \in S, NEW i \in 1..Len(q), q[i] = r, i # 1
               PROVE  In(r, Tail(q))
    BY <1>1 DEF In
  <2>1. i - 1 \in 1..Len(Tail(q)) /\ Tail(q)[i - 1] = q[i]
    BY <1>1
  <2> QED BY <2>1 DEF In
<1>3. \A r \in S : In(r, Tail(q)) \/ r = Head(q) => In(r, q)
  BY <1>1 DEF In
<1>4. NoRepeat(q) => NoRepeat(Tail(q)) /\ ~In(Head(q), Tail(q))
  BY <1>1 DEF NoRepeat, In
<1> QED BY <1>2, <1>3, <1>4

\* HookPlace looks at the registrars only, so a step of another thread that
\* leaves the hooks alone keeps it.
LEMMA HookPlaceKept ==
  ASSUME HookPlace, UNCHANGED <<hooks, taken, ran>>,
         \A r \in Registrars : pc'[r] = pc[r]
  PROVE  HookPlace'
BY DEF HookPlace, In, NoRepeat

LEMMA HookInit == Init => HookInv
<1> SUFFICES ASSUME Init PROVE HookInv
  OBVIOUS
<1>1. WakeInv
  BY WakeInit
<1>2. \A t \in Threads : pc[t] = "idle"
  BY DEF Init
<1>3. HookPlace
  BY <1>2, InEmptySeq DEF Init, HookPlace, Threads
<1>4. HookComing
  BY DEF Init, HookComing
<1> QED BY <1>1, <1>3, <1>4 DEF HookInv

LEMMA HookCancel ==
  ASSUME HookInv, WakeInv', NEW c \in Cancellers, Cancel(c)
  PROVE  HookInv'
<1>0. c \in Threads /\ Cancellers \subseteq Threads /\ Registrars \subseteq Threads
        /\ c \notin Registrars /\ TypeOK
  BY DistinctThreads DEF Threads, WakeInv, HookInv
<1>1. CASE CancelSwap(c)
  <2>1. /\ pc[c] = "idle" /\ pc'[c] = IF cancelled THEN "done" ELSE "notify"
        /\ \A s \in Threads : s # c => pc'[s] = pc[s]
        /\ cancelled' /\ UNCHANGED <<hooks, taken, ran>>
    BY <1>0, <1>1 DEF CancelSwap, Goto, TypeOK
  <2>2. HookPlace'
    BY <1>0, <2>1, HookPlaceKept DEF HookInv
  <2>3. HookComing'
    BY <1>0, <2>1 DEF HookInv, HookComing
  <2> QED BY <2>2, <2>3 DEF HookInv
<1>2. CASE CancelNotify(c)
  <2>1. /\ pc[c] = "notify" /\ pc'[c] = "take"
        /\ \A s \in Threads : s # c /\ s \notin AllWaiters => pc'[s] = pc[s]
        /\ UNCHANGED <<cancelled, hooks, taken, ran>>
    BY <1>0, <1>2 DEF CancelNotify
  <2>2. \A s \in Cancellers \cup Registrars : s # c => pc'[s] = pc[s]
    BY <1>0, <2>1, DistinctThreads
  <2>3. HookPlace'
    BY <1>0, <2>1, <2>2, HookPlaceKept DEF HookInv
  <2>4. HookComing'
    BY <1>0, <2>1, <2>2 DEF HookInv, HookComing
  <2> QED BY <2>3, <2>4 DEF HookInv
<1>3. CASE CancelTake(c)
  <2>1. /\ pc[c] = "take" /\ pc'[c] = "run"
        /\ \A s \in Threads : s # c => pc'[s] = pc[s]
        /\ hooksLock = NoThread
        /\ taken' = hooks /\ hooks' = <<>> /\ UNCHANGED <<cancelled, ran>>
    BY <1>0, <1>3 DEF CancelTake, Goto, TypeOK
  <2>2. taken = <<>>
    BY <2>1 DEF HookInv, HookComing, WakeInv, OneWinner, Active
  <2>3. \A r \in Registrars : pc[r] # "push"
    BY <1>0, <2>1, DistinctThreads DEF HookInv, WakeInv, LockOwners
  <2>4. \A r \in Registrars : ~In(r, taken) /\ ~In(r, hooks') /\ (In(r, taken)' <=> In(r, hooks))
    BY <2>1, <2>2, InEmptySeq DEF In
  <2>5. NoRepeat(taken)' /\ NoRepeat(hooks)'
    BY <2>1, InEmptySeq DEF NoRepeat, HookInv, HookPlace
  <2>6. HookPlace'
    BY <1>0, <2>1, <2>4, <2>5 DEF HookInv, HookPlace
  <2>7. HookComing'
    BY <1>0, <2>1, <2>3 DEF HookComing
  <2> QED BY <2>6, <2>7 DEF HookInv
<1>4. CASE CancelRunHook(c)
  <2>1. /\ pc[c] = "run" /\ pc' = pc /\ taken # <<>>
        /\ ran' = [ran EXCEPT ![Head(taken)] = @ + 1]
        /\ taken' = Tail(taken) /\ UNCHANGED <<cancelled, hooks>>
        /\ taken \in Seq(Registrars) /\ Head(taken) \in Registrars
        /\ ran \in [Registrars -> Nat]
    BY <1>4 DEF CancelRunHook, TypeOK, HookInv, WakeInv
  <2>2. /\ NoRepeat(taken) /\ NoRepeat(hooks)
        /\ \A r \in Registrars : In(r, hooks) => ~In(r, taken)
        /\ \A r \in Registrars : In(r, hooks) \/ In(r, taken) => pc[r] = "done" /\ ran[r] = 0
    BY DEF HookInv, HookPlace
  <2>3. /\ \A r \in Registrars : In(r, taken) <=> In(r, taken') \/ r = Head(taken)
        /\ NoRepeat(taken') /\ ~In(Head(taken), taken')
    BY <2>1, <2>2, TailSeq
  <2>4. pc[Head(taken)] = "done" /\ ran[Head(taken)] = 0 /\ ran'[Head(taken)] = 1
    BY <2>1, <2>2, <2>3
  <2>5. \A r \in Registrars : r # Head(taken) => ran'[r] = ran[r]
    BY <2>1
  <2>6. \A r \in Registrars : (In(r, taken)' <=> In(r, taken')) /\ (In(r, hooks)' <=> In(r, hooks))
    BY <2>1 DEF In
  <2>7. NoRepeat(taken)' /\ NoRepeat(hooks)'
    BY <2>1, <2>2, <2>3 DEF NoRepeat
  <2>8. HookPlace'
    BY <2>1, <2>2, <2>3, <2>4, <2>5, <2>6, <2>7 DEF HookInv, HookPlace
  <2>9. HookComing'
    BY <2>1 DEF HookInv, HookComing
  <2> QED BY <2>8, <2>9 DEF HookInv
<1>5. CASE CancelReturn(c)
  <2>1. /\ pc[c] = "run" /\ pc'[c] = "done" /\ taken = <<>>
        /\ \A s \in Threads : s # c => pc'[s] = pc[s]
        /\ UNCHANGED <<cancelled, hooks, taken, ran>>
    BY <1>0, <1>5 DEF CancelReturn, Goto, TypeOK
  <2>2. HookPlace'
    BY <1>0, <2>1, HookPlaceKept DEF HookInv
  <2>3. HookComing'
    BY <1>0, <2>1 DEF HookInv, HookComing
  <2> QED BY <2>2, <2>3 DEF HookInv
<1> QED BY <1>1, <1>2, <1>3, <1>4, <1>5 DEF Cancel

LEMMA HookOnCancel ==
  ASSUME HookInv, WakeInv', NEW r \in Registrars, OnCancel(r)
  PROVE  HookInv'
<1>0. r \in Threads /\ Cancellers \subseteq Threads /\ Registrars \subseteq Threads
        /\ r \notin Cancellers /\ TypeOK
  BY DistinctThreads DEF Threads, WakeInv, HookInv
<1>1. (\A s \in Threads : s # r => pc'[s] = pc[s]) /\ UNCHANGED <<cancelled, taken>>
  BY <1>0 DEF OnCancel, OnCancelCheck, OnCancelLock, OnCancelRecheck, OnCancelPush,
              OnCancelRunNow, Goto, TypeOK
<1>2. CASE OnCancelCheck(r) \/ OnCancelLock(r) \/ OnCancelRecheck(r)
  <2>1. /\ pc[r] # "done" /\ pc'[r] # "done" /\ UNCHANGED <<hooks, ran>>
        /\ pc'[r] = "push" => ~cancelled
    BY <1>0, <1>2 DEF OnCancelCheck, OnCancelLock, OnCancelRecheck, Goto, TypeOK
  <2>2. \A s \in Registrars : (In(s, taken)' <=> In(s, taken)) /\ (In(s, hooks)' <=> In(s, hooks))
    BY <1>1, <2>1 DEF In
  <2>3. NoRepeat(taken)' /\ NoRepeat(hooks)'
    BY <1>1, <2>1 DEF NoRepeat, HookInv, HookPlace
  <2>4. HookPlace'
    BY <1>0, <1>1, <2>1, <2>2, <2>3 DEF HookInv, HookPlace
  <2>5. HookComing'
    BY <1>0, <1>1, <2>1 DEF HookInv, HookComing
  <2> QED BY <2>4, <2>5 DEF HookInv
<1>3. CASE OnCancelPush(r)
  <2>1. /\ pc[r] = "push" /\ pc'[r] = "done" /\ hooks' = Append(hooks, r) /\ UNCHANGED ran
        /\ hooks \in Seq(Registrars)
    BY <1>0, <1>3 DEF OnCancelPush, Goto, TypeOK
  <2>2. ~In(r, hooks) /\ ~In(r, taken) /\ ran[r] = 0
    BY <2>1 DEF HookInv, HookPlace
  <2>3. /\ \A s \in Registrars : In(s, hooks') <=> In(s, hooks) \/ s = r
        /\ NoRepeat(hooks')
    BY <2>1, <2>2, AppendSeq DEF HookInv, HookPlace
  <2>4. \A s \in Registrars : (In(s, taken)' <=> In(s, taken)) /\ (In(s, hooks)' <=> In(s, hooks'))
    BY <1>1, <2>1 DEF In
  <2>5. NoRepeat(taken)' /\ NoRepeat(hooks)'
    BY <1>1, <2>3 DEF NoRepeat, HookInv, HookPlace
  <2>6. HookPlace'
    BY <1>0, <1>1, <2>1, <2>2, <2>3, <2>4, <2>5 DEF HookInv, HookPlace
  <2>7. HookComing'
    BY <1>0, <1>1, <2>1 DEF HookInv, HookComing
  <2> QED BY <2>6, <2>7 DEF HookInv
<1>4. CASE OnCancelRunNow(r)
  <2>1. /\ pc[r] = "runNow" /\ pc'[r] = "done" /\ ran' = [ran EXCEPT ![r] = @ + 1]
        /\ UNCHANGED hooks /\ ran \in [Registrars -> Nat]
    BY <1>0, <1>4 DEF OnCancelRunNow, Goto, TypeOK
  <2>2. ~In(r, hooks) /\ ~In(r, taken) /\ ran[r] = 0
    BY <2>1 DEF HookInv, HookPlace
  <2>3. ran'[r] = 1 /\ \A s \in Registrars : s # r => ran'[s] = ran[s]
    BY <2>1, <2>2
  <2>4. \A s \in Registrars : (In(s, taken)' <=> In(s, taken)) /\ (In(s, hooks)' <=> In(s, hooks))
    BY <1>1, <2>1 DEF In
  <2>5. NoRepeat(taken)' /\ NoRepeat(hooks)'
    BY <1>1, <2>1 DEF NoRepeat, HookInv, HookPlace
  <2>6. HookPlace'
    BY <1>0, <1>1, <2>1, <2>2, <2>3, <2>4, <2>5 DEF HookInv, HookPlace
  <2>7. HookComing'
    BY <1>0, <1>1, <2>1 DEF HookInv, HookComing
  <2> QED BY <2>6, <2>7 DEF HookInv
<1> QED BY <1>2, <1>3, <1>4 DEF OnCancel

LEMMA HookWait ==
  ASSUME HookInv, WakeInv', NEW w \in AllWaiters,
         \/ w \in Waiters /\ (WaitCancelled(w) \/ SpuriousWake(w))
         \/ w \in TimedWaiters /\ TimedWait(w)
  PROVE  HookInv'
<1>0. w \in Threads /\ Cancellers \subseteq Threads /\ Registrars \subseteq Threads
        /\ w \notin Cancellers /\ w \notin Registrars /\ TypeOK
  BY DistinctThreads DEF Threads, AllWaiters, WakeInv, HookInv
<1>1. (\A s \in Threads : s # w => pc'[s] = pc[s]) /\ UNCHANGED <<cancelled, hooks, taken, ran>>
  BY <1>0 DEF WaitCancelled, WaitCheck, WaitLock, WaitRecheck, WaitPark, WaitReturn,
              SpuriousWake, TimedWait, TimedCheck, TimedPark, TimedOut, TimedReturn, Goto, TypeOK
<1>2. HookPlace'
  BY <1>0, <1>1, HookPlaceKept DEF HookInv
<1>3. HookComing'
  BY <1>0, <1>1 DEF HookInv, HookComing
<1> QED BY <1>2, <1>3 DEF HookInv

LEMMA HookNext == HookInv /\ [Next]_vars => HookInv'
<1> SUFFICES ASSUME HookInv, [Next]_vars PROVE HookInv'
  OBVIOUS
<1>0. WakeInv'
  BY WakeNext DEF HookInv
<1>1. CASE UNCHANGED vars
  <2>1. HookPlace'
    BY <1>1, HookPlaceKept DEF vars, HookInv
  <2>2. HookComing'
    BY <1>1 DEF vars, HookInv, HookComing
  <2> QED BY <1>0, <2>1, <2>2 DEF HookInv
<1>2. CASE Next
  BY <1>0, <1>1, <1>2, HookCancel, HookOnCancel, HookWait DEF Next, Finished, AllWaiters
<1> QED BY <1>1, <1>2

-----------------------------------------------------------------------------
(* The hooks of a cancellation run in the order of their registration      *)

OrderInv == HookInv /\ RegistrationOrder

LEMMA PushOrder ==
  \A a, b \in Seq(Registrars) : \A r \in Registrars : Append(a \o b, r) = a \o Append(b, r)
<1> SUFFICES ASSUME NEW a \in Seq(Registrars), NEW b \in Seq(Registrars), NEW r \in Registrars
             PROVE  Append(a \o b, r) = a \o Append(b, r)
  OBVIOUS
<1>1. a \o b \in Seq(Registrars) /\ <<r>> \in Seq(Registrars)
  BY ConcatProperties
<1>2. Append(a \o b, r) = (a \o b) \o <<r>> /\ Append(b, r) = b \o <<r>>
  BY <1>1, AppendIsConcat
<1> QED BY <1>1, <1>2, ConcatAssociative

LEMMA RunOrder ==
  ASSUME NEW S, NEW a \in Seq(S), NEW b \in Seq(S), b # <<>>
  PROVE  Append(a, Head(b)) \o Tail(b) = a \o b
<1>1. /\ Head(b) \in S /\ Tail(b) \in Seq(S) /\ <<Head(b)>> \in Seq(S)
      /\ b = <<Head(b)>> \o Tail(b)
  OBVIOUS
<1>2. Append(a, Head(b)) = a \o <<Head(b)>>
  BY <1>1, AppendIsConcat
<1> QED BY <1>1, <1>2, ConcatAssociative

LEMMA OrderNext == OrderInv /\ [Next]_vars => OrderInv'
<1> SUFFICES ASSUME OrderInv, [Next]_vars PROVE OrderInv'
  OBVIOUS
<1>0. HookInv' /\ TypeOK
  BY HookNext DEF OrderInv, HookInv, WakeInv
<1> USE DEF OrderInv, RegistrationOrder
<1>1. CASE UNCHANGED <<hooks, taken, pushed, runLog>>
  BY <1>0, <1>1
<1>2. ASSUME NEW c \in Cancellers, CancelTake(c)
      PROVE  OrderInv'
  <2>1. taken = <<>>
    <3>1. pc[c] = "take"
      BY <1>2 DEF CancelTake, Goto
    <3>2. \A d \in Cancellers : pc[d] # "run"
      BY <3>1 DEF HookInv, WakeInv, OneWinner, Active
    <3> QED BY <3>2 DEF HookInv, HookComing
  <2>2. runLog' = runLog /\ pushed' = pushed /\ taken' = hooks /\ hooks' = <<>>
    BY <1>2 DEF CancelTake
  <2>3. runLog \o hooks \in Seq(Registrars) /\ runLog \o <<>> = runLog
    BY <1>0, ConcatProperties, ConcatEmptySeq DEF TypeOK
  <2>4. (runLog \o hooks) \o <<>> = runLog \o hooks
    BY <2>3, ConcatEmptySeq
  <2> QED BY <1>0, <2>1, <2>2, <2>3, <2>4
<1>3. ASSUME NEW c \in Cancellers, CancelRunHook(c)
      PROVE  OrderInv'
  <2>1. Append(runLog, Head(taken)) \o Tail(taken) = runLog \o taken
    BY <1>0, <1>3, RunOrder DEF CancelRunHook, TypeOK
  <2> QED BY <1>0, <1>3, <2>1 DEF CancelRunHook
<1>4. ASSUME NEW r \in Registrars, OnCancelPush(r)
      PROVE  OrderInv'
  <2>1. Append((runLog \o taken) \o hooks, r) = (runLog \o taken) \o Append(hooks, r)
    <3>1. runLog \o taken \in Seq(Registrars) /\ hooks \in Seq(Registrars)
      BY <1>0, ConcatProperties DEF TypeOK
    <3> QED BY <3>1, PushOrder, Zenon
  <2> QED BY <1>0, <1>4, <2>1 DEF OnCancelPush
<1>5. \/ UNCHANGED <<hooks, taken, pushed, runLog>>
      \/ \E c \in Cancellers : CancelTake(c) \/ CancelRunHook(c)
      \/ \E r \in Registrars : OnCancelPush(r)
  BY DEF Next, vars, Cancel, CancelSwap, CancelNotify, CancelReturn, OnCancel, OnCancelCheck,
         OnCancelLock, OnCancelRecheck, OnCancelRunNow, WaitCancelled, WaitCheck, WaitLock,
         WaitRecheck, WaitPark, WaitReturn, SpuriousWake, TimedWait, TimedCheck, TimedPark,
         TimedOut, TimedReturn, Finished
<1> QED BY <1>1, <1>2, <1>3, <1>4, <1>5

-----------------------------------------------------------------------------
(* Theorem                                                                 *)

\* A hook never runs twice, whichever of cancel() and on_cancel() reaches it;
\* it is never lost: when the cancellation is over, every on_cancel() that has
\* returned has had its hook run; and cancel() keeps the registration order.
THEOREM EveryHookRunsOnce == Spec => []HooksRunOnce
<1>1. HookInv => HookAtMostOnce
  BY DEF HookInv, HookPlace, HookAtMostOnce
<1>2. HookInv => HookNotLost
  <2> SUFFICES ASSUME HookInv, NEW r \in Registrars, cancelled,
                      \A c \in Cancellers : pc[c] \in {"idle", "done"}, pc[r] = "done"
               PROVE  ran[r] = 1
    BY DEF HookNotLost
  <2>1. hooks = <<>> /\ taken = <<>>
    BY DEF HookInv, HookComing
  <2> QED BY <2>1, InEmptySeq DEF HookInv, HookPlace
<1>3. OrderInv => HooksRunOnce
  BY <1>1, <1>2 DEF OrderInv, HooksRunOnce
<1>4. Init => OrderInv
  <2>1. ASSUME Init PROVE RegistrationOrder
    BY <2>1, ConcatEmptySeq DEF Init, RegistrationOrder
  <2> QED BY <2>1, HookInit DEF OrderInv
<1> QED BY <1>3, <1>4, OrderNext, PTL DEF Spec

(***************************************************************************)
(* EngineLifecycle                                                         *)
(***************************************************************************)

Engine == INSTANCE EngineLifecycle

\* The states of a call that holds the read lock, and the ones in which it
\* waits for the write lock or holds it.
ReadStates == {"stInb", "stProv", "stDns", "stRun", "spDns", "spProv", "spInb", "spRun"}
WriteStates == {"spDrop", "inStop", "inSet", "reload"}

\* The lock excludes: while anybody reads, the installed engine stays.
LockExcludes ==
  /\ \A t \in Callers : t \in readers <=> cpc[t] \in ReadStates
  /\ \A t \in Callers : t = writer \/ t \in queued => cpc[t] \in WriteStates
  /\ writer \notin queued
  /\ readers # {} => writer = None /\ inst # 0
  /\ inst <= gens

\* A call that began alone is alone: nobody undoes what its stop has done so
\* far.
SoloIsAlone ==
  \A t \in Callers : solo = t =>
    /\ \A u \in Callers : u # t => cpc[u] = "idle"
    /\ cpc[t] \in {"spReset"} \cup Engine!PastReset => ~ctrl
    /\ cpc[t] \in Engine!PastReset => live \subseteq token \cup late

\* A relay is known to the tracker or was told to end.
LiveIsKnown == live \subseteq tracked \cup token

EngineInv ==
  /\ Engine!TypeOK
  /\ LockExcludes
  /\ SoloIsAlone
  /\ LiveIsKnown
  /\ Engine!OnlyInstalledServes
  /\ Engine!StopIsComplete
  /\ Engine!StopCancelsSessions

LEMMA EngineTyped ==
  ASSUME Engine!LifecycleAssumption, EngineInv, [Engine!Next]_(Engine!vars)
  PROVE  Engine!TypeOK'
<1> USE DEF EngineInv, Engine!TypeOK, Engine!LifecycleAssumption, Engine!Gens, Engine!Listeners, Engine!Goto, Engine!Return, Engine!lockVars, Engine!callVars, Engine!engVars, Engine!sessVars, Engine!CanRead, Engine!ReadLock, Engine!ReadUnlock, Engine!WriteUnlock, Engine!Dropped, Engine!States, Engine!PastReset, ReadStates, WriteStates, LockExcludes
<1>1. ASSUME NEW t \in Callers, NEW entry \in {"stRead", "spCtl", "inStop", "reload"}, Engine!Call(t, entry)
      PROVE  Engine!TypeOK'
  BY <1>1 DEF Engine!Call, Engine!Quiet
<1>2. ASSUME NEW t \in Callers, Engine!Enqueue(t)
      PROVE  Engine!TypeOK'
  BY <1>2 DEF Engine!Enqueue
<1>3. ASSUME NEW t \in Callers, Engine!WriteGrant(t)
      PROVE  Engine!TypeOK'
  BY <1>3 DEF Engine!WriteGrant
<1>4. ASSUME NEW t \in Callers, Engine!StartRead(t)
      PROVE  Engine!TypeOK'
  BY <1>4 DEF Engine!StartRead
<1>5. ASSUME NEW t \in Callers, Engine!StartInbound(t)
      PROVE  Engine!TypeOK'
  BY <1>5 DEF Engine!StartInbound
<1>6. ASSUME NEW t \in Callers, Engine!StartInboundsDone(t)
      PROVE  Engine!TypeOK'
  BY <1>6 DEF Engine!StartInboundsDone
<1>7. ASSUME NEW t \in Callers, Engine!StartProviders(t)
      PROVE  Engine!TypeOK'
  BY <1>7 DEF Engine!StartProviders
<1>8. ASSUME NEW t \in Callers, Engine!StartProvidersError(t)
      PROVE  Engine!TypeOK'
  BY <1>8 DEF Engine!StartProvidersError
<1>9. ASSUME NEW t \in Callers, Engine!StartDns(t)
      PROVE  Engine!TypeOK'
  BY <1>9 DEF Engine!StartDns
<1>10. ASSUME NEW t \in Callers, Engine!StartRun(t)
      PROVE  Engine!TypeOK'
  BY <1>10 DEF Engine!StartRun
<1>11. ASSUME NEW t \in Callers, Engine!StartControllerRead(t)
      PROVE  Engine!TypeOK'
  BY <1>11 DEF Engine!StartControllerRead
<1>12. ASSUME NEW t \in Callers, Engine!StartController(t)
      PROVE  Engine!TypeOK'
  BY <1>12 DEF Engine!StartController
<1>13. ASSUME NEW t \in Callers, Engine!StopController(t)
      PROVE  Engine!TypeOK'
  BY <1>13 DEF Engine!StopController
<1>14. ASSUME NEW t \in Callers, Engine!StopReset(t)
      PROVE  Engine!TypeOK'
  BY <1>14 DEF Engine!StopReset
<1>15. ASSUME NEW t \in Callers, Engine!StopRead(t)
      PROVE  Engine!TypeOK'
  BY <1>15 DEF Engine!StopRead
<1>16. ASSUME NEW t \in Callers, Engine!StopDns(t)
      PROVE  Engine!TypeOK'
  BY <1>16 DEF Engine!StopDns
<1>17. ASSUME NEW t \in Callers, Engine!StopProviders(t)
      PROVE  Engine!TypeOK'
  BY <1>17 DEF Engine!StopProviders
<1>18. ASSUME NEW t \in Callers, Engine!StopInbound(t)
      PROVE  Engine!TypeOK'
  BY <1>18 DEF Engine!StopInbound
<1>19. ASSUME NEW t \in Callers, Engine!StopInboundsDone(t)
      PROVE  Engine!TypeOK'
  BY <1>19 DEF Engine!StopInboundsDone
<1>20. ASSUME NEW t \in Callers, Engine!StopRun(t)
      PROVE  Engine!TypeOK'
  BY <1>20 DEF Engine!StopRun
<1>21. ASSUME NEW t \in Callers, Engine!StopDrop(t)
      PROVE  Engine!TypeOK'
  BY <1>21 DEF Engine!StopDrop
<1>22. ASSUME NEW t \in Callers, Engine!InstallStop(t)
      PROVE  Engine!TypeOK'
  BY <1>22 DEF Engine!InstallStop
<1>23. ASSUME NEW t \in Callers, Engine!InstallNew(t)
      PROVE  Engine!TypeOK'
  BY <1>23 DEF Engine!InstallNew
<1>24. ASSUME NEW t \in Callers, Engine!InstallSet(t)
      PROVE  Engine!TypeOK'
  BY <1>24 DEF Engine!InstallSet
<1>25. ASSUME NEW t \in Callers, Engine!InstallBound(t)
      PROVE  Engine!TypeOK'
  BY <1>25 DEF Engine!InstallBound
<1>26. ASSUME NEW t \in Callers, Engine!Reload(t)
      PROVE  Engine!TypeOK'
  <2>1. up' \subseteq Engine!Gens \X Engine!Listeners
    <3>1. \/ up' = up
          \/ /\ inst # 0
             /\ \E n \in 0 .. NListeners :
                  up' = {p \in up : p[1] # inst} \cup ({inst} \X (1 .. n))
      <4> HIDE DEF EngineInv, Engine!TypeOK, LockExcludes
      <4>1. CASE UNCHANGED Engine!engVars
        <5>1. up' = up
          BY <4>1 DEF Engine!engVars
        <5> QED BY <5>1
      <4>2. CASE inst # 0 /\ \E n \in 0 .. NListeners :
                   up' = {p \in up : p[1] # inst} \cup ({inst} \X (1 .. n))
        BY <4>2
      <4> QED BY <1>26, <4>1, <4>2, Zenon DEF Engine!Reload
    <3>2. ASSUME inst # 0, NEW n \in 0 .. NListeners PROVE {inst} \X (1 .. n) \subseteq Engine!Gens \X Engine!Listeners
      <4>1. 1 .. n \subseteq 1 .. NListeners /\ inst \in 1 .. MaxGens
        BY <3>2
      <4> QED BY <4>1
    <3> QED BY <3>1, <3>2
  <2>2. dns' \subseteq Engine!Gens /\ UNCHANGED <<running, updater, inst, gens, ctrl, at, ops, solo, live, served, late, tracked, token, readers, queued>>
    BY <1>26 DEF Engine!Reload
  <2>3. cpc' \in [Callers -> Engine!States] /\ last' \in [Callers -> {"none", "start", "stop", "init", "reload", "error"}] /\ writer' = None
    BY <1>26 DEF Engine!Reload
  <2> QED BY <2>1, <2>2, <2>3
<1>27. ASSUME NEW s \in Sessions, Engine!Accept(s)
      PROVE  Engine!TypeOK'
  BY <1>27 DEF Engine!Accept
<1>28. ASSUME NEW s \in Sessions, Engine!SessionEnd(s)
      PROVE  Engine!TypeOK'
  BY <1>28 DEF Engine!SessionEnd
<1>29. CASE UNCHANGED Engine!vars
  BY <1>29 DEF Engine!vars
<1> QED
  BY <1>1, <1>2, <1>3, <1>4, <1>5, <1>6, <1>7, <1>8, <1>9, <1>10, <1>11, <1>12, <1>13, <1>14, <1>15, <1>16, <1>17, <1>18, <1>19, <1>20, <1>21, <1>22, <1>23, <1>24, <1>25, <1>26, <1>27, <1>28, <1>29
  DEF Engine!Next, Engine!Calls, Engine!Progress, Engine!Start, Engine!Stop, Engine!Install, Engine!Finished

LEMMA EngineLock ==
  ASSUME Engine!LifecycleAssumption, EngineInv, [Engine!Next]_(Engine!vars)
  PROVE  LockExcludes'
<1> USE DEF EngineInv, Engine!TypeOK, Engine!LifecycleAssumption, Engine!Gens, Engine!Listeners, Engine!Goto, Engine!Return, Engine!lockVars, Engine!callVars, Engine!engVars, Engine!sessVars, Engine!CanRead, Engine!ReadLock, Engine!ReadUnlock, Engine!WriteUnlock, Engine!Dropped, Engine!States, Engine!PastReset, ReadStates, WriteStates, LockExcludes
<1>1. ASSUME NEW t \in Callers, NEW entry \in {"stRead", "spCtl", "inStop", "reload"}, Engine!Call(t, entry)
      PROVE  LockExcludes'
  BY <1>1 DEF Engine!Call, Engine!Quiet
<1>2. ASSUME NEW t \in Callers, Engine!Enqueue(t)
      PROVE  LockExcludes'
  BY <1>2 DEF Engine!Enqueue
<1>3. ASSUME NEW t \in Callers, Engine!WriteGrant(t)
      PROVE  LockExcludes'
  BY <1>3 DEF Engine!WriteGrant
<1>4. ASSUME NEW t \in Callers, Engine!StartRead(t)
      PROVE  LockExcludes'
  BY <1>4 DEF Engine!StartRead
<1>5. ASSUME NEW t \in Callers, Engine!StartInbound(t)
      PROVE  LockExcludes'
  BY <1>5 DEF Engine!StartInbound
<1>6. ASSUME NEW t \in Callers, Engine!StartInboundsDone(t)
      PROVE  LockExcludes'
  BY <1>6 DEF Engine!StartInboundsDone
<1>7. ASSUME NEW t \in Callers, Engine!StartProviders(t)
      PROVE  LockExcludes'
  BY <1>7 DEF Engine!StartProviders
<1>8. ASSUME NEW t \in Callers, Engine!StartProvidersError(t)
      PROVE  LockExcludes'
  BY <1>8 DEF Engine!StartProvidersError
<1>9. ASSUME NEW t \in Callers, Engine!StartDns(t)
      PROVE  LockExcludes'
  BY <1>9 DEF Engine!StartDns
<1>10. ASSUME NEW t \in Callers, Engine!StartRun(t)
      PROVE  LockExcludes'
  BY <1>10 DEF Engine!StartRun
<1>11. ASSUME NEW t \in Callers, Engine!StartControllerRead(t)
      PROVE  LockExcludes'
  BY <1>11 DEF Engine!StartControllerRead
<1>12. ASSUME NEW t \in Callers, Engine!StartController(t)
      PROVE  LockExcludes'
  BY <1>12 DEF Engine!StartController
<1>13. ASSUME NEW t \in Callers, Engine!StopController(t)
      PROVE  LockExcludes'
  BY <1>13 DEF Engine!StopController
<1>14. ASSUME NEW t \in Callers, Engine!StopReset(t)
      PROVE  LockExcludes'
  BY <1>14 DEF Engine!StopReset
<1>15. ASSUME NEW t \in Callers, Engine!StopRead(t)
      PROVE  LockExcludes'
  BY <1>15 DEF Engine!StopRead
<1>16. ASSUME NEW t \in Callers, Engine!StopDns(t)
      PROVE  LockExcludes'
  BY <1>16 DEF Engine!StopDns
<1>17. ASSUME NEW t \in Callers, Engine!StopProviders(t)
      PROVE  LockExcludes'
  BY <1>17 DEF Engine!StopProviders
<1>18. ASSUME NEW t \in Callers, Engine!StopInbound(t)
      PROVE  LockExcludes'
  BY <1>18 DEF Engine!StopInbound
<1>19. ASSUME NEW t \in Callers, Engine!StopInboundsDone(t)
      PROVE  LockExcludes'
  BY <1>19 DEF Engine!StopInboundsDone
<1>20. ASSUME NEW t \in Callers, Engine!StopRun(t)
      PROVE  LockExcludes'
  BY <1>20 DEF Engine!StopRun
<1>21. ASSUME NEW t \in Callers, Engine!StopDrop(t)
      PROVE  LockExcludes'
  BY <1>21 DEF Engine!StopDrop
<1>22. ASSUME NEW t \in Callers, Engine!InstallStop(t)
      PROVE  LockExcludes'
  BY <1>22 DEF Engine!InstallStop
<1>23. ASSUME NEW t \in Callers, Engine!InstallNew(t)
      PROVE  LockExcludes'
  BY <1>23 DEF Engine!InstallNew
<1>24. ASSUME NEW t \in Callers, Engine!InstallSet(t)
      PROVE  LockExcludes'
  BY <1>24 DEF Engine!InstallSet
<1>25. ASSUME NEW t \in Callers, Engine!InstallBound(t)
      PROVE  LockExcludes'
  BY <1>25 DEF Engine!InstallBound
<1>26. ASSUME NEW t \in Callers, Engine!Reload(t)
      PROVE  LockExcludes'
  BY <1>26 DEF Engine!Reload
<1>27. ASSUME NEW s \in Sessions, Engine!Accept(s)
      PROVE  LockExcludes'
  BY <1>27 DEF Engine!Accept
<1>28. ASSUME NEW s \in Sessions, Engine!SessionEnd(s)
      PROVE  LockExcludes'
  BY <1>28 DEF Engine!SessionEnd
<1>29. CASE UNCHANGED Engine!vars
  BY <1>29 DEF Engine!vars
<1> QED
  BY <1>1, <1>2, <1>3, <1>4, <1>5, <1>6, <1>7, <1>8, <1>9, <1>10, <1>11, <1>12, <1>13, <1>14, <1>15, <1>16, <1>17, <1>18, <1>19, <1>20, <1>21, <1>22, <1>23, <1>24, <1>25, <1>26, <1>27, <1>28, <1>29
  DEF Engine!Next, Engine!Calls, Engine!Progress, Engine!Start, Engine!Stop, Engine!Install, Engine!Finished

LEMMA EngineServes ==
  ASSUME Engine!LifecycleAssumption, EngineInv, [Engine!Next]_(Engine!vars)
  PROVE  Engine!OnlyInstalledServes'
<1> USE DEF EngineInv, Engine!TypeOK, Engine!LifecycleAssumption, Engine!Gens, Engine!Listeners, Engine!Goto, Engine!Return, Engine!lockVars, Engine!callVars, Engine!engVars, Engine!sessVars, Engine!CanRead, Engine!ReadLock, Engine!ReadUnlock, Engine!WriteUnlock, Engine!Dropped, Engine!States, Engine!PastReset, ReadStates, WriteStates, Engine!OnlyInstalledServes
<1>1. ASSUME NEW t \in Callers, NEW entry \in {"stRead", "spCtl", "inStop", "reload"}, Engine!Call(t, entry)
      PROVE  Engine!OnlyInstalledServes'
  BY <1>1 DEF Engine!Call, Engine!Quiet
<1>2. ASSUME NEW t \in Callers, Engine!Enqueue(t)
      PROVE  Engine!OnlyInstalledServes'
  BY <1>2 DEF Engine!Enqueue
<1>3. ASSUME NEW t \in Callers, Engine!WriteGrant(t)
      PROVE  Engine!OnlyInstalledServes'
  BY <1>3 DEF Engine!WriteGrant
<1>4. ASSUME NEW t \in Callers, Engine!StartRead(t)
      PROVE  Engine!OnlyInstalledServes'
  BY <1>4 DEF Engine!StartRead
<1>5. ASSUME NEW t \in Callers, Engine!StartInbound(t)
      PROVE  Engine!OnlyInstalledServes'
  BY <1>5 DEF Engine!StartInbound
<1>6. ASSUME NEW t \in Callers, Engine!StartInboundsDone(t)
      PROVE  Engine!OnlyInstalledServes'
  BY <1>6 DEF Engine!StartInboundsDone
<1>7. ASSUME NEW t \in Callers, Engine!StartProviders(t)
      PROVE  Engine!OnlyInstalledServes'
  BY <1>7 DEF Engine!StartProviders
<1>8. ASSUME NEW t \in Callers, Engine!StartProvidersError(t)
      PROVE  Engine!OnlyInstalledServes'
  BY <1>8 DEF Engine!StartProvidersError
<1>9. ASSUME NEW t \in Callers, Engine!StartDns(t)
      PROVE  Engine!OnlyInstalledServes'
  BY <1>9 DEF Engine!StartDns
<1>10. ASSUME NEW t \in Callers, Engine!StartRun(t)
      PROVE  Engine!OnlyInstalledServes'
  BY <1>10 DEF Engine!StartRun
<1>11. ASSUME NEW t \in Callers, Engine!StartControllerRead(t)
      PROVE  Engine!OnlyInstalledServes'
  BY <1>11 DEF Engine!StartControllerRead
<1>12. ASSUME NEW t \in Callers, Engine!StartController(t)
      PROVE  Engine!OnlyInstalledServes'
  BY <1>12 DEF Engine!StartController
<1>13. ASSUME NEW t \in Callers, Engine!StopController(t)
      PROVE  Engine!OnlyInstalledServes'
  BY <1>13 DEF Engine!StopController
<1>14. ASSUME NEW t \in Callers, Engine!StopReset(t)
      PROVE  Engine!OnlyInstalledServes'
  BY <1>14 DEF Engine!StopReset
<1>15. ASSUME NEW t \in Callers, Engine!StopRead(t)
      PROVE  Engine!OnlyInstalledServes'
  BY <1>15 DEF Engine!StopRead
<1>16. ASSUME NEW t \in Callers, Engine!StopDns(t)
      PROVE  Engine!OnlyInstalledServes'
  BY <1>16 DEF Engine!StopDns
<1>17. ASSUME NEW t \in Callers, Engine!StopProviders(t)
      PROVE  Engine!OnlyInstalledServes'
  BY <1>17 DEF Engine!StopProviders
<1>18. ASSUME NEW t \in Callers, Engine!StopInbound(t)
      PROVE  Engine!OnlyInstalledServes'
  BY <1>18 DEF Engine!StopInbound
<1>19. ASSUME NEW t \in Callers, Engine!StopInboundsDone(t)
      PROVE  Engine!OnlyInstalledServes'
  BY <1>19 DEF Engine!StopInboundsDone
<1>20. ASSUME NEW t \in Callers, Engine!StopRun(t)
      PROVE  Engine!OnlyInstalledServes'
  BY <1>20 DEF Engine!StopRun
<1>21. ASSUME NEW t \in Callers, Engine!StopDrop(t)
      PROVE  Engine!OnlyInstalledServes'
  BY <1>21 DEF Engine!StopDrop
<1>22. ASSUME NEW t \in Callers, Engine!InstallStop(t)
      PROVE  Engine!OnlyInstalledServes'
  BY <1>22 DEF Engine!InstallStop
<1>23. ASSUME NEW t \in Callers, Engine!InstallNew(t)
      PROVE  Engine!OnlyInstalledServes'
  BY <1>23 DEF Engine!InstallNew
<1>24. ASSUME NEW t \in Callers, Engine!InstallSet(t)
      PROVE  Engine!OnlyInstalledServes'
  BY <1>24 DEF Engine!InstallSet
<1>25. ASSUME NEW t \in Callers, Engine!InstallBound(t)
      PROVE  Engine!OnlyInstalledServes'
  BY <1>25 DEF Engine!InstallBound
<1>26. ASSUME NEW t \in Callers, Engine!Reload(t)
      PROVE  Engine!OnlyInstalledServes'
  BY <1>26 DEF Engine!Reload
<1>27. ASSUME NEW s \in Sessions, Engine!Accept(s)
      PROVE  Engine!OnlyInstalledServes'
  BY <1>27 DEF Engine!Accept
<1>28. ASSUME NEW s \in Sessions, Engine!SessionEnd(s)
      PROVE  Engine!OnlyInstalledServes'
  BY <1>28 DEF Engine!SessionEnd
<1>29. CASE UNCHANGED Engine!vars
  BY <1>29 DEF Engine!vars
<1> QED
  BY <1>1, <1>2, <1>3, <1>4, <1>5, <1>6, <1>7, <1>8, <1>9, <1>10, <1>11, <1>12, <1>13, <1>14, <1>15, <1>16, <1>17, <1>18, <1>19, <1>20, <1>21, <1>22, <1>23, <1>24, <1>25, <1>26, <1>27, <1>28, <1>29
  DEF Engine!Next, Engine!Calls, Engine!Progress, Engine!Start, Engine!Stop, Engine!Install, Engine!Finished

LEMMA EngineAlone ==
  ASSUME Engine!LifecycleAssumption, EngineInv, [Engine!Next]_(Engine!vars)
  PROVE  SoloIsAlone'
<1> USE DEF EngineInv, Engine!TypeOK, Engine!LifecycleAssumption, Engine!Gens, Engine!Listeners, Engine!Goto, Engine!Return, Engine!lockVars, Engine!callVars, Engine!engVars, Engine!sessVars, Engine!CanRead, Engine!ReadLock, Engine!ReadUnlock, Engine!WriteUnlock, Engine!Dropped, Engine!States, Engine!PastReset, ReadStates, WriteStates, SoloIsAlone, LiveIsKnown, LockExcludes
<1>1. ASSUME NEW t \in Callers, NEW entry \in {"stRead", "spCtl", "inStop", "reload"}, Engine!Call(t, entry)
      PROVE  SoloIsAlone'
  BY <1>1 DEF Engine!Call, Engine!Quiet
<1>2. ASSUME NEW t \in Callers, Engine!Enqueue(t)
      PROVE  SoloIsAlone'
  BY <1>2 DEF Engine!Enqueue
<1>3. ASSUME NEW t \in Callers, Engine!WriteGrant(t)
      PROVE  SoloIsAlone'
  BY <1>3 DEF Engine!WriteGrant
<1>4. ASSUME NEW t \in Callers, Engine!StartRead(t)
      PROVE  SoloIsAlone'
  BY <1>4 DEF Engine!StartRead
<1>5. ASSUME NEW t \in Callers, Engine!StartInbound(t)
      PROVE  SoloIsAlone'
  BY <1>5 DEF Engine!StartInbound
<1>6. ASSUME NEW t \in Callers, Engine!StartInboundsDone(t)
      PROVE  SoloIsAlone'
  BY <1>6 DEF Engine!StartInboundsDone
<1>7. ASSUME NEW t \in Callers, Engine!StartProviders(t)
      PROVE  SoloIsAlone'
  BY <1>7 DEF Engine!StartProviders
<1>8. ASSUME NEW t \in Callers, Engine!StartProvidersError(t)
      PROVE  SoloIsAlone'
  BY <1>8 DEF Engine!StartProvidersError
<1>9. ASSUME NEW t \in Callers, Engine!StartDns(t)
      PROVE  SoloIsAlone'
  BY <1>9 DEF Engine!StartDns
<1>10. ASSUME NEW t \in Callers, Engine!StartRun(t)
      PROVE  SoloIsAlone'
  BY <1>10 DEF Engine!StartRun
<1>11. ASSUME NEW t \in Callers, Engine!StartControllerRead(t)
      PROVE  SoloIsAlone'
  BY <1>11 DEF Engine!StartControllerRead
<1>12. ASSUME NEW t \in Callers, Engine!StartController(t)
      PROVE  SoloIsAlone'
  BY <1>12 DEF Engine!StartController
<1>13. ASSUME NEW t \in Callers, Engine!StopController(t)
      PROVE  SoloIsAlone'
  BY <1>13 DEF Engine!StopController
<1>14. ASSUME NEW t \in Callers, Engine!StopReset(t)
      PROVE  SoloIsAlone'
  BY <1>14 DEF Engine!StopReset
<1>15. ASSUME NEW t \in Callers, Engine!StopRead(t)
      PROVE  SoloIsAlone'
  BY <1>15 DEF Engine!StopRead
<1>16. ASSUME NEW t \in Callers, Engine!StopDns(t)
      PROVE  SoloIsAlone'
  BY <1>16 DEF Engine!StopDns
<1>17. ASSUME NEW t \in Callers, Engine!StopProviders(t)
      PROVE  SoloIsAlone'
  BY <1>17 DEF Engine!StopProviders
<1>18. ASSUME NEW t \in Callers, Engine!StopInbound(t)
      PROVE  SoloIsAlone'
  BY <1>18 DEF Engine!StopInbound
<1>19. ASSUME NEW t \in Callers, Engine!StopInboundsDone(t)
      PROVE  SoloIsAlone'
  BY <1>19 DEF Engine!StopInboundsDone
<1>20. ASSUME NEW t \in Callers, Engine!StopRun(t)
      PROVE  SoloIsAlone'
  BY <1>20 DEF Engine!StopRun
<1>21. ASSUME NEW t \in Callers, Engine!StopDrop(t)
      PROVE  SoloIsAlone'
  BY <1>21 DEF Engine!StopDrop
<1>22. ASSUME NEW t \in Callers, Engine!InstallStop(t)
      PROVE  SoloIsAlone'
  BY <1>22 DEF Engine!InstallStop
<1>23. ASSUME NEW t \in Callers, Engine!InstallNew(t)
      PROVE  SoloIsAlone'
  BY <1>23 DEF Engine!InstallNew
<1>24. ASSUME NEW t \in Callers, Engine!InstallSet(t)
      PROVE  SoloIsAlone'
  BY <1>24 DEF Engine!InstallSet
<1>25. ASSUME NEW t \in Callers, Engine!InstallBound(t)
      PROVE  SoloIsAlone'
  BY <1>25 DEF Engine!InstallBound
<1>26. ASSUME NEW t \in Callers, Engine!Reload(t)
      PROVE  SoloIsAlone'
  BY <1>26 DEF Engine!Reload
<1>27. ASSUME NEW s \in Sessions, Engine!Accept(s)
      PROVE  SoloIsAlone'
  BY <1>27 DEF Engine!Accept
<1>28. ASSUME NEW s \in Sessions, Engine!SessionEnd(s)
      PROVE  SoloIsAlone'
  BY <1>28 DEF Engine!SessionEnd
<1>29. CASE UNCHANGED Engine!vars
  BY <1>29 DEF Engine!vars
<1> QED
  BY <1>1, <1>2, <1>3, <1>4, <1>5, <1>6, <1>7, <1>8, <1>9, <1>10, <1>11, <1>12, <1>13, <1>14, <1>15, <1>16, <1>17, <1>18, <1>19, <1>20, <1>21, <1>22, <1>23, <1>24, <1>25, <1>26, <1>27, <1>28, <1>29
  DEF Engine!Next, Engine!Calls, Engine!Progress, Engine!Start, Engine!Stop, Engine!Install, Engine!Finished

LEMMA EngineKnown ==
  ASSUME Engine!LifecycleAssumption, EngineInv, [Engine!Next]_(Engine!vars)
  PROVE  LiveIsKnown'
<1> USE DEF EngineInv, Engine!TypeOK, Engine!LifecycleAssumption, Engine!Gens, Engine!Listeners, Engine!Goto, Engine!Return, Engine!lockVars, Engine!callVars, Engine!engVars, Engine!sessVars, Engine!CanRead, Engine!ReadLock, Engine!ReadUnlock, Engine!WriteUnlock, Engine!Dropped, Engine!States, Engine!PastReset, ReadStates, WriteStates, LiveIsKnown
<1>1. ASSUME NEW t \in Callers, NEW entry \in {"stRead", "spCtl", "inStop", "reload"}, Engine!Call(t, entry)
      PROVE  LiveIsKnown'
  BY <1>1 DEF Engine!Call, Engine!Quiet
<1>2. ASSUME NEW t \in Callers, Engine!Enqueue(t)
      PROVE  LiveIsKnown'
  BY <1>2 DEF Engine!Enqueue
<1>3. ASSUME NEW t \in Callers, Engine!WriteGrant(t)
      PROVE  LiveIsKnown'
  BY <1>3 DEF Engine!WriteGrant
<1>4. ASSUME NEW t \in Callers, Engine!StartRead(t)
      PROVE  LiveIsKnown'
  BY <1>4 DEF Engine!StartRead
<1>5. ASSUME NEW t \in Callers, Engine!StartInbound(t)
      PROVE  LiveIsKnown'
  BY <1>5 DEF Engine!StartInbound
<1>6. ASSUME NEW t \in Callers, Engine!StartInboundsDone(t)
      PROVE  LiveIsKnown'
  BY <1>6 DEF Engine!StartInboundsDone
<1>7. ASSUME NEW t \in Callers, Engine!StartProviders(t)
      PROVE  LiveIsKnown'
  BY <1>7 DEF Engine!StartProviders
<1>8. ASSUME NEW t \in Callers, Engine!StartProvidersError(t)
      PROVE  LiveIsKnown'
  BY <1>8 DEF Engine!StartProvidersError
<1>9. ASSUME NEW t \in Callers, Engine!StartDns(t)
      PROVE  LiveIsKnown'
  BY <1>9 DEF Engine!StartDns
<1>10. ASSUME NEW t \in Callers, Engine!StartRun(t)
      PROVE  LiveIsKnown'
  BY <1>10 DEF Engine!StartRun
<1>11. ASSUME NEW t \in Callers, Engine!StartControllerRead(t)
      PROVE  LiveIsKnown'
  BY <1>11 DEF Engine!StartControllerRead
<1>12. ASSUME NEW t \in Callers, Engine!StartController(t)
      PROVE  LiveIsKnown'
  BY <1>12 DEF Engine!StartController
<1>13. ASSUME NEW t \in Callers, Engine!StopController(t)
      PROVE  LiveIsKnown'
  BY <1>13 DEF Engine!StopController
<1>14. ASSUME NEW t \in Callers, Engine!StopReset(t)
      PROVE  LiveIsKnown'
  BY <1>14 DEF Engine!StopReset
<1>15. ASSUME NEW t \in Callers, Engine!StopRead(t)
      PROVE  LiveIsKnown'
  BY <1>15 DEF Engine!StopRead
<1>16. ASSUME NEW t \in Callers, Engine!StopDns(t)
      PROVE  LiveIsKnown'
  BY <1>16 DEF Engine!StopDns
<1>17. ASSUME NEW t \in Callers, Engine!StopProviders(t)
      PROVE  LiveIsKnown'
  BY <1>17 DEF Engine!StopProviders
<1>18. ASSUME NEW t \in Callers, Engine!StopInbound(t)
      PROVE  LiveIsKnown'
  BY <1>18 DEF Engine!StopInbound
<1>19. ASSUME NEW t \in Callers, Engine!StopInboundsDone(t)
      PROVE  LiveIsKnown'
  BY <1>19 DEF Engine!StopInboundsDone
<1>20. ASSUME NEW t \in Callers, Engine!StopRun(t)
      PROVE  LiveIsKnown'
  BY <1>20 DEF Engine!StopRun
<1>21. ASSUME NEW t \in Callers, Engine!StopDrop(t)
      PROVE  LiveIsKnown'
  BY <1>21 DEF Engine!StopDrop
<1>22. ASSUME NEW t \in Callers, Engine!InstallStop(t)
      PROVE  LiveIsKnown'
  BY <1>22 DEF Engine!InstallStop
<1>23. ASSUME NEW t \in Callers, Engine!InstallNew(t)
      PROVE  LiveIsKnown'
  BY <1>23 DEF Engine!InstallNew
<1>24. ASSUME NEW t \in Callers, Engine!InstallSet(t)
      PROVE  LiveIsKnown'
  BY <1>24 DEF Engine!InstallSet
<1>25. ASSUME NEW t \in Callers, Engine!InstallBound(t)
      PROVE  LiveIsKnown'
  BY <1>25 DEF Engine!InstallBound
<1>26. ASSUME NEW t \in Callers, Engine!Reload(t)
      PROVE  LiveIsKnown'
  BY <1>26 DEF Engine!Reload
<1>27. ASSUME NEW s \in Sessions, Engine!Accept(s)
      PROVE  LiveIsKnown'
  BY <1>27 DEF Engine!Accept
<1>28. ASSUME NEW s \in Sessions, Engine!SessionEnd(s)
      PROVE  LiveIsKnown'
  BY <1>28 DEF Engine!SessionEnd
<1>29. CASE UNCHANGED Engine!vars
  BY <1>29 DEF Engine!vars
<1> QED
  BY <1>1, <1>2, <1>3, <1>4, <1>5, <1>6, <1>7, <1>8, <1>9, <1>10, <1>11, <1>12, <1>13, <1>14, <1>15, <1>16, <1>17, <1>18, <1>19, <1>20, <1>21, <1>22, <1>23, <1>24, <1>25, <1>26, <1>27, <1>28, <1>29
  DEF Engine!Next, Engine!Calls, Engine!Progress, Engine!Start, Engine!Stop, Engine!Install, Engine!Finished

LEMMA EngineStops ==
  ASSUME Engine!LifecycleAssumption, EngineInv, [Engine!Next]_(Engine!vars)
  PROVE  (Engine!StopIsComplete /\ Engine!StopCancelsSessions)'
<1> USE DEF EngineInv, Engine!TypeOK, Engine!LifecycleAssumption, Engine!Gens, Engine!Listeners, Engine!Goto, Engine!Return, Engine!lockVars, Engine!callVars, Engine!engVars, Engine!sessVars, Engine!CanRead, Engine!ReadLock, Engine!ReadUnlock, Engine!WriteUnlock, Engine!Dropped, Engine!States, Engine!PastReset, ReadStates, WriteStates, Engine!OnlyInstalledServes, Engine!StopIsComplete, Engine!StopCancelsSessions, SoloIsAlone, LockExcludes
<1>1. ASSUME NEW t \in Callers, NEW entry \in {"stRead", "spCtl", "inStop", "reload"}, Engine!Call(t, entry)
      PROVE  (Engine!StopIsComplete /\ Engine!StopCancelsSessions)'
  BY <1>1 DEF Engine!Call, Engine!Quiet
<1>2. ASSUME NEW t \in Callers, Engine!Enqueue(t)
      PROVE  (Engine!StopIsComplete /\ Engine!StopCancelsSessions)'
  BY <1>2 DEF Engine!Enqueue
<1>3. ASSUME NEW t \in Callers, Engine!WriteGrant(t)
      PROVE  (Engine!StopIsComplete /\ Engine!StopCancelsSessions)'
  BY <1>3 DEF Engine!WriteGrant
<1>4. ASSUME NEW t \in Callers, Engine!StartRead(t)
      PROVE  (Engine!StopIsComplete /\ Engine!StopCancelsSessions)'
  BY <1>4 DEF Engine!StartRead
<1>5. ASSUME NEW t \in Callers, Engine!StartInbound(t)
      PROVE  (Engine!StopIsComplete /\ Engine!StopCancelsSessions)'
  BY <1>5 DEF Engine!StartInbound
<1>6. ASSUME NEW t \in Callers, Engine!StartInboundsDone(t)
      PROVE  (Engine!StopIsComplete /\ Engine!StopCancelsSessions)'
  BY <1>6 DEF Engine!StartInboundsDone
<1>7. ASSUME NEW t \in Callers, Engine!StartProviders(t)
      PROVE  (Engine!StopIsComplete /\ Engine!StopCancelsSessions)'
  BY <1>7 DEF Engine!StartProviders
<1>8. ASSUME NEW t \in Callers, Engine!StartProvidersError(t)
      PROVE  (Engine!StopIsComplete /\ Engine!StopCancelsSessions)'
  BY <1>8 DEF Engine!StartProvidersError
<1>9. ASSUME NEW t \in Callers, Engine!StartDns(t)
      PROVE  (Engine!StopIsComplete /\ Engine!StopCancelsSessions)'
  BY <1>9 DEF Engine!StartDns
<1>10. ASSUME NEW t \in Callers, Engine!StartRun(t)
      PROVE  (Engine!StopIsComplete /\ Engine!StopCancelsSessions)'
  BY <1>10 DEF Engine!StartRun
<1>11. ASSUME NEW t \in Callers, Engine!StartControllerRead(t)
      PROVE  (Engine!StopIsComplete /\ Engine!StopCancelsSessions)'
  BY <1>11 DEF Engine!StartControllerRead
<1>12. ASSUME NEW t \in Callers, Engine!StartController(t)
      PROVE  (Engine!StopIsComplete /\ Engine!StopCancelsSessions)'
  BY <1>12 DEF Engine!StartController
<1>13. ASSUME NEW t \in Callers, Engine!StopController(t)
      PROVE  (Engine!StopIsComplete /\ Engine!StopCancelsSessions)'
  BY <1>13 DEF Engine!StopController
<1>14. ASSUME NEW t \in Callers, Engine!StopReset(t)
      PROVE  (Engine!StopIsComplete /\ Engine!StopCancelsSessions)'
  BY <1>14 DEF Engine!StopReset
<1>15. ASSUME NEW t \in Callers, Engine!StopRead(t)
      PROVE  (Engine!StopIsComplete /\ Engine!StopCancelsSessions)'
  BY <1>15 DEF Engine!StopRead
<1>16. ASSUME NEW t \in Callers, Engine!StopDns(t)
      PROVE  (Engine!StopIsComplete /\ Engine!StopCancelsSessions)'
  BY <1>16 DEF Engine!StopDns
<1>17. ASSUME NEW t \in Callers, Engine!StopProviders(t)
      PROVE  (Engine!StopIsComplete /\ Engine!StopCancelsSessions)'
  BY <1>17 DEF Engine!StopProviders
<1>18. ASSUME NEW t \in Callers, Engine!StopInbound(t)
      PROVE  (Engine!StopIsComplete /\ Engine!StopCancelsSessions)'
  BY <1>18 DEF Engine!StopInbound
<1>19. ASSUME NEW t \in Callers, Engine!StopInboundsDone(t)
      PROVE  (Engine!StopIsComplete /\ Engine!StopCancelsSessions)'
  BY <1>19 DEF Engine!StopInboundsDone
<1>20. ASSUME NEW t \in Callers, Engine!StopRun(t)
      PROVE  (Engine!StopIsComplete /\ Engine!StopCancelsSessions)'
  BY <1>20 DEF Engine!StopRun
<1>21. ASSUME NEW t \in Callers, Engine!StopDrop(t)
      PROVE  (Engine!StopIsComplete /\ Engine!StopCancelsSessions)'
  BY <1>21 DEF Engine!StopDrop
<1>22. ASSUME NEW t \in Callers, Engine!InstallStop(t)
      PROVE  (Engine!StopIsComplete /\ Engine!StopCancelsSessions)'
  BY <1>22 DEF Engine!InstallStop
<1>23. ASSUME NEW t \in Callers, Engine!InstallNew(t)
      PROVE  (Engine!StopIsComplete /\ Engine!StopCancelsSessions)'
  BY <1>23 DEF Engine!InstallNew
<1>24. ASSUME NEW t \in Callers, Engine!InstallSet(t)
      PROVE  (Engine!StopIsComplete /\ Engine!StopCancelsSessions)'
  BY <1>24 DEF Engine!InstallSet
<1>25. ASSUME NEW t \in Callers, Engine!InstallBound(t)
      PROVE  (Engine!StopIsComplete /\ Engine!StopCancelsSessions)'
  BY <1>25 DEF Engine!InstallBound
<1>26. ASSUME NEW t \in Callers, Engine!Reload(t)
      PROVE  (Engine!StopIsComplete /\ Engine!StopCancelsSessions)'
  BY <1>26 DEF Engine!Reload
<1>27. ASSUME NEW s \in Sessions, Engine!Accept(s)
      PROVE  (Engine!StopIsComplete /\ Engine!StopCancelsSessions)'
  BY <1>27 DEF Engine!Accept
<1>28. ASSUME NEW s \in Sessions, Engine!SessionEnd(s)
      PROVE  (Engine!StopIsComplete /\ Engine!StopCancelsSessions)'
  BY <1>28 DEF Engine!SessionEnd
<1>29. CASE UNCHANGED Engine!vars
  BY <1>29 DEF Engine!vars
<1> QED
  BY <1>1, <1>2, <1>3, <1>4, <1>5, <1>6, <1>7, <1>8, <1>9, <1>10, <1>11, <1>12, <1>13, <1>14, <1>15, <1>16, <1>17, <1>18, <1>19, <1>20, <1>21, <1>22, <1>23, <1>24, <1>25, <1>26, <1>27, <1>28, <1>29
  DEF Engine!Next, Engine!Calls, Engine!Progress, Engine!Start, Engine!Stop, Engine!Install, Engine!Finished

LEMMA EngineNext ==
  ASSUME Engine!LifecycleAssumption, EngineInv, [Engine!Next]_(Engine!vars)
  PROVE  EngineInv'
  BY EngineTyped, EngineLock, EngineServes, EngineAlone, EngineKnown, EngineStops DEF EngineInv

(* For any callers, sessions and number of listeners, and however calls to *)
(* install, start, reload and stop the engine interleave: only the         *)
(* installed engine serves, and a stop that no other call overlaps takes   *)
(* everything down and tells every session it knew of to end.              *)
THEOREM LifecycleAlwaysClean ==
  ASSUME Engine!LifecycleAssumption
  PROVE  Engine!Spec => []Engine!LifecycleIsClean
<1>1. Engine!Init => EngineInv
  <2> USE DEF Engine!LifecycleAssumption
  <2> SUFFICES ASSUME Engine!Init PROVE EngineInv
    OBVIOUS
  <2>1. Engine!TypeOK
    <3>1. 1 \in 1 .. (NListeners + 1) /\ 0 \in 0 .. MaxOps /\ 0 \in 0 .. MaxGens
      OBVIOUS
    <3>2. /\ cpc \in [Callers -> Engine!States] /\ at \in [Callers -> 1 .. (NListeners + 1)]
          /\ ops \in [Callers -> 0 .. MaxOps]
          /\ last \in [Callers -> {"none", "start", "stop", "init", "reload", "error"}]
      BY <3>1 DEF Engine!Init, Engine!States
    <3> QED BY <3>1, <3>2 DEF Engine!Init, Engine!TypeOK
  <2>2. LockExcludes /\ LiveIsKnown /\ SoloIsAlone
    BY DEF Engine!Init, LockExcludes, LiveIsKnown, SoloIsAlone, ReadStates
  <2>3. Engine!OnlyInstalledServes /\ Engine!StopIsComplete /\ Engine!StopCancelsSessions
    BY DEF Engine!Init, Engine!OnlyInstalledServes, Engine!StopIsComplete, Engine!StopCancelsSessions
  <2> QED BY <2>1, <2>2, <2>3 DEF EngineInv
<1>2. EngineInv /\ [Engine!Next]_(Engine!vars) => EngineInv'
  BY EngineNext
<1>3. EngineInv => Engine!LifecycleIsClean
  BY DEF EngineInv, Engine!LifecycleIsClean
<1> QED
  BY <1>1, <1>2, <1>3, PTL DEF Engine!Spec

(***************************************************************************)
(* ControlServer                                                           *)
(***************************************************************************)

Control == INSTANCE ControlServer

PhaseRec == [left : Nat, gap : Nat, window : BOOLEAN]

ControlType ==
  /\ server \in Servers /\ secret \in BOOLEAN
  /\ pc \in {"line", "headers", "body", "serve", "ws", "closed"}
  /\ phase \in PhaseRec
  /\ wait \in Nat /\ ahead \in Nat /\ age \in Nat
  /\ frag \in BOOLEAN /\ begun \in BOOLEAN

\* A read never waits past its phase; the age of a request and what is left of
\* its budget are together the budget, from the first byte on; before it there
\* is no age.
BudgetIsKept ==
  /\ wait <= phase.left
  /\ pc \in {"line", "headers"} =>
       IF phase.window THEN ~begun /\ age = 0 ELSE age + phase.left <= HeadDeadline
  /\ pc = "body" => ~phase.window /\ age + phase.left <= BodyDeadline

WsRec == [silence : Nat, pinged : BOOLEAN, entitled : BOOLEAN]

\* A session was opened by a peer that showed the secret.
SessionIsEntitled == ws \in WsRec /\ (pc = "ws" => ws.entitled)

ControlInv ==
  /\ ControlType
  /\ BudgetIsKept
  /\ SessionIsEntitled
  /\ Control!CallsAreAuthorized

-----------------------------------------------------------------------------
(* Calls                                                                   *)

LEMMA PayloadGuarded ==
  ASSUME NEW a, a, Control!CallsAreAuthorized, Control!ProcessPayload(a)
  PROVE Control!CallsAreAuthorized'
  BY DEF Control!ProcessPayload, Control!Dispatch, Control!world, Control!CallsAreAuthorized

\* A handler that calls a set of methods, for a peer that is entitled.
LEMMA CallsGuarded ==
  ASSUME NEW methods, NEW cred, Control!Entitled(cred), Control!CallsAreAuthorized,
         calls' = calls \cup {[method |-> m, authorized |-> Control!Entitled(cred)] : m \in methods}
  PROVE Control!CallsAreAuthorized'
<1> SUFFICES ASSUME NEW c \in calls', c \notin calls PROVE c.authorized
  BY DEF Control!CallsAreAuthorized
<1>1. PICK m \in methods : c = [method |-> m, authorized |-> Control!Entitled(cred)]
  OBVIOUS
<1> QED
  BY <1>1

LEMMA DispatchGuarded ==
  ASSUME NEW method, NEW a, NEW ok, NEW args, a, Control!CallsAreAuthorized,
         Control!Dispatch(method, args, a, ok)
  PROVE Control!CallsAreAuthorized'
  BY DEF Control!CallsAreAuthorized, Control!Dispatch

LEMMA WorldGuarded ==
  ASSUME Control!CallsAreAuthorized, UNCHANGED Control!world
  PROVE Control!CallsAreAuthorized'
  BY DEF Control!CallsAreAuthorized, Control!world

LEMMA ReadsGuarded ==
  ASSUME NEW cred, Control!Entitled(cred), Control!CallsAreAuthorized, Control!HandleReads(cred)
  PROVE Control!CallsAreAuthorized'
<1>1. \A methods, failed : Control!ReadRoute(cred, methods, failed) => Control!CallsAreAuthorized'
  <2> TAKE methods, failed
  <2> HAVE Control!ReadRoute(cred, methods, failed)
  <2>1. calls' = calls \cup {[method |-> m, authorized |-> Control!Entitled(cred)] : m \in methods}
    BY DEF Control!ReadRoute
  <2> QED BY <2>1, CallsGuarded, ZenonT(40)
<1>2. \E methods, failed : Control!ReadRoute(cred, methods, failed)
  BY DEF Control!HandleReads, Control!HandleVersion, Control!HandleConfigsGet,
         Control!HandleProxies, Control!HandleProxyGet, Control!HandleProxyDelay,
         Control!HandleRules, Control!HandleConnections, Control!HandleTraffic,
         Control!HandleMemory
<1> QED BY <1>1, <1>2

LEMMA PatchGuarded ==
  ASSUME NEW cred, Control!Entitled(cred), Control!CallsAreAuthorized, Control!HandlePatch(cred)
  PROVE Control!CallsAreAuthorized'
<1>1. CASE UNCHANGED Control!world
  BY <1>1, WorldGuarded
<1>2. CASE \E methods :
             calls' = calls \cup {[method |-> m, authorized |-> Control!Entitled(cred)] : m \in methods}
  BY <1>2, CallsGuarded, ZenonT(40)
<1> QED BY <1>1, <1>2 DEF Control!HandlePatch

LEMMA CommandGuarded ==
  ASSUME NEW cred, NEW method, Control!Entitled(cred), Control!CallsAreAuthorized,
         Control!Command(cred, method)
  PROVE Control!CallsAreAuthorized'
<1>1. PICK body \in BOOLEAN, ok \in BOOLEAN :
        IF body THEN Control!Dispatch(method, "good", Control!Entitled(cred), ok) ELSE UNCHANGED calls
  BY DEF Control!Command
<1>2. CASE body
  BY <1>1, <1>2, DispatchGuarded
<1>3. CASE ~body
  BY <1>1, <1>3 DEF Control!CallsAreAuthorized
<1> QED BY <1>2, <1>3

\* The external controller looks at the secret before it looks at the route.
LEMMA RouteGuarded ==
  ASSUME NEW cred, Control!CallsAreAuthorized, Control!Route(cred)
  PROVE Control!CallsAreAuthorized'
<1>1. CASE UNCHANGED Control!world
  BY <1>1, WorldGuarded
<1>2. ASSUME Control!Authorized(cred)
      PROVE Control!Entitled(cred)
  BY <1>2 DEF Control!Authorized, Control!Entitled
<1>3. CASE Control!Authorized(cred) /\ Control!HandlePatch(cred)
  BY <1>2, <1>3, PatchGuarded
<1>4. CASE Control!Authorized(cred) /\ (Control!HandleConfigsPut(cred) \/ Control!HandleProxySelect(cred))
  BY <1>2, <1>4, CommandGuarded DEF Control!HandleConfigsPut, Control!HandleProxySelect
<1>5. CASE Control!Authorized(cred) /\ Control!HandleClose(cred)
  BY <1>2, <1>5, DispatchGuarded DEF Control!HandleClose
<1>6. CASE Control!Authorized(cred) /\ Control!HandleReads(cred)
  BY <1>2, <1>6, ReadsGuarded
<1> QED BY <1>1, <1>3, <1>4, <1>5, <1>6 DEF Control!Route

LEMMA RpcGuarded ==
  ASSUME NEW cred, Control!CallsAreAuthorized, Control!HandleRpc(cred)
  PROVE Control!CallsAreAuthorized'
<1>1. CASE UNCHANGED Control!world
  BY <1>1, WorldGuarded
<1>2. CASE cred = "right" /\ Control!ProcessPayload(Control!Entitled(cred))
  <2>1. Control!Entitled(cred)
    BY <1>2 DEF Control!Entitled
  <2> QED BY <1>2, <2>1, PayloadGuarded
<1> QED BY <1>1, <1>2 DEF Control!HandleRpc

-----------------------------------------------------------------------------
(* The clock                                                               *)

LEMMA PhaseFacts ==
  ASSUME Control!ControlAssumption
  PROVE /\ Control!EnterIdle \in PhaseRec /\ Control!EnterHead \in PhaseRec
        /\ Control!EnterBody \in PhaseRec
        /\ Control!EnterIdle.window /\ ~Control!EnterHead.window /\ ~Control!EnterBody.window
        /\ Control!EnterHead.left = HeadDeadline /\ Control!EnterBody.left = BodyDeadline
        /\ \A p \in PhaseRec : Control!Armed(p) \in Nat /\ Control!Armed(p) <= p.left
  BY DEF Control!ControlAssumption, Control!EnterIdle, Control!EnterHead, Control!EnterBody,
         PhaseRec, Control!Armed, Control!Least

\* The next request is on the clock at once when its first bytes are there.
LEMMA NextRequestKeeps ==
  ASSUME Control!ControlAssumption, ControlInv, Control!NextRequest,
         UNCHANGED <<Control!who, Control!buffer>>
  PROVE ControlType' /\ BudgetIsKept' /\ pc' = "line"
<1>1. begun' \in BOOLEAN /\ phase' \in PhaseRec /\ wait' = Control!Armed(phase') /\ age' = 0 /\ pc' = "line"
  BY PhaseFacts DEF Control!NextRequest, ControlInv, ControlType
<1>2. wait' \in Nat /\ wait' <= phase'.left
  BY <1>1, PhaseFacts
<1>3. ControlType'
  BY <1>1, <1>2 DEF ControlInv, ControlType, Control!who, Control!buffer
<1>4. BudgetIsKept'
  BY <1>1, <1>2, PhaseFacts DEF BudgetIsKept, Control!NextRequest, PhaseRec,
     Control!ControlAssumption
<1> QED BY <1>1, <1>3, <1>4

\* Closing leaves the clock alone, and no request is read any more.
LEMMA CloseKeeps ==
  ASSUME ControlInv, NEW why, Control!Close(why),
         UNCHANGED <<Control!who, Control!clock, frag, begun>>, ahead' \in Nat, ws' \in WsRec
  PROVE ControlType' /\ BudgetIsKept' /\ SessionIsEntitled'
  BY DEF ControlInv, ControlType, BudgetIsKept, SessionIsEntitled, Control!Close, Control!who,
     Control!clock

LEMMA ControlNext ==
  ASSUME Control!ControlAssumption, ControlInv, [Control!Next]_(Control!vars)
  PROVE ControlInv'
<1> USE DEF ControlInv
<1>1. CASE UNCHANGED Control!vars
  BY <1>1 DEF Control!vars, ControlType, BudgetIsKept, SessionIsEntitled, Control!CallsAreAuthorized
<1>2. CASE Control!Tick
  <2>1. CASE pc = "ws"
    <3>1. UNCHANGED <<Control!clock, calls, pc, server, secret, ahead, frag, begun>>
      BY <1>2, <2>1 DEF Control!Tick, Control!Reading, Control!who, Control!buffer, Control!world
    <3>2. ws' \in WsRec /\ ws'.entitled = ws.entitled
      BY <1>2, <2>1 DEF Control!Tick, Control!Reading, SessionIsEntitled, WsRec
    <3> QED BY <3>1, <3>2, <2>1
      DEF ControlType, BudgetIsKept, SessionIsEntitled, Control!CallsAreAuthorized, Control!clock
  <2>2. CASE pc # "ws"
    <3>1. /\ Control!Reading /\ wait > 0 /\ wait' = wait - 1
          /\ phase' = [phase EXCEPT !.left = @ - 1]
          /\ age' = IF begun THEN age + 1 ELSE age
          /\ UNCHANGED <<calls, pc, server, secret, ahead, frag, begun, ws>>
      BY <1>2, <2>2 DEF Control!Tick, Control!who, Control!buffer, Control!world
    <3>2. phase' \in PhaseRec /\ phase'.left = phase.left - 1 /\ phase'.window = phase.window
      BY <3>1 DEF ControlType, BudgetIsKept, PhaseRec
    <3> QED BY <3>1, <3>2, <2>2
      DEF ControlType, BudgetIsKept, SessionIsEntitled, Control!CallsAreAuthorized, PhaseRec,
          Control!ControlAssumption
  <2> QED BY <2>1, <2>2
<1>3. CASE Control!ReadBytes
  <2>1. /\ Control!AfterByte(phase) \in PhaseRec /\ ~Control!AfterByte(phase).window
        /\ phase.window => Control!AfterByte(phase).left = HeadDeadline
        /\ ~phase.window => Control!AfterByte(phase) = phase
    BY PhaseFacts DEF Control!AfterByte, ControlType, PhaseRec
  <2>2. /\ pc \in {"line", "headers", "body"} /\ pc' = pc
        /\ ahead' \in Nat /\ frag' \in BOOLEAN /\ begun' = TRUE
        /\ phase' = Control!AfterByte(phase) /\ wait' = Control!Armed(phase')
        /\ UNCHANGED <<server, secret, age, calls, ws>>
    BY <1>3 DEF Control!ReadBytes, Control!Reading, Control!who, Control!world,
       Control!ControlAssumption
  <2>3. wait' \in Nat /\ wait' <= phase'.left
    BY <2>1, <2>2, PhaseFacts
  <2>4. ControlType'
    BY <2>1, <2>2, <2>3 DEF ControlType
  <2>5. BudgetIsKept'
    BY <2>1, <2>2, <2>3 DEF BudgetIsKept, Control!ControlAssumption
  <2> QED BY <2>2, <2>4, <2>5 DEF SessionIsEntitled, Control!CallsAreAuthorized
<1>4. CASE Control!PeerGone
  BY <1>4, CloseKeeps, WorldGuarded DEF Control!PeerGone, Control!buffer, ControlType,
     SessionIsEntitled
<1>5. CASE Control!TimedOut
  BY <1>5, CloseKeeps, WorldGuarded DEF Control!TimedOut, Control!buffer, ControlType,
     SessionIsEntitled
<1>6. CASE Control!ParseLine
  <2>1. ahead' \in Nat /\ Control!CallsAreAuthorized'
    BY <1>6, WorldGuarded DEF Control!ParseLine, Control!TakePiece, ControlType
  <2>2. CASE pc' = "headers"
    BY <1>6, <2>1, <2>2
    DEF Control!ParseLine, ControlType, BudgetIsKept, SessionIsEntitled, Control!who, Control!clock
  <2>3. CASE \E status \in {"400", "431"} : Control!Refuse(status)
    BY <1>6, <2>1, <2>3, CloseKeeps DEF Control!ParseLine, Control!Refuse, SessionIsEntitled
  <2> QED BY <1>6, <2>2, <2>3 DEF Control!ParseLine
<1>7. CASE Control!ParseHeaders
  <2>1. ahead' \in Nat /\ Control!CallsAreAuthorized' /\ UNCHANGED <<frag, begun, Control!who, ws>>
    BY <1>7, WorldGuarded DEF Control!ParseHeaders, Control!TakePiece, ControlType
  <2>2. CASE \E status \in {"400", "413", "431"} : Control!Refuse(status) /\ UNCHANGED Control!clock
    BY <2>1, <2>2, CloseKeeps DEF Control!Refuse, SessionIsEntitled
  <2>3. CASE /\ phase' = Control!EnterBody /\ wait' = Control!Armed(Control!EnterBody) /\ age' = 0
             /\ pc' \in {"serve", "body"}
    <3>1. phase' \in PhaseRec /\ wait' \in Nat /\ wait' <= phase'.left
      BY <2>3, PhaseFacts
    <3> QED BY <2>1, <2>3, <3>1, PhaseFacts
      DEF ControlType, BudgetIsKept, SessionIsEntitled, Control!who, Control!ControlAssumption
  <2> QED BY <1>7, <2>2, <2>3 DEF Control!ParseHeaders
<1>8. CASE Control!ReadBody
  <2>1. ahead' \in Nat /\ Control!CallsAreAuthorized' /\ UNCHANGED <<frag, begun, Control!who, Control!clock, ws>>
    BY <1>8, WorldGuarded DEF Control!ReadBody, Control!TakePiece, ControlType
  <2>2. CASE pc' = "serve"
    BY <2>1, <2>2 DEF ControlType, BudgetIsKept, SessionIsEntitled, Control!who, Control!clock
  <2>3. CASE \E status \in {"400", "413"} : Control!Refuse(status)
    BY <2>1, <2>3, CloseKeeps DEF Control!Refuse, SessionIsEntitled
  <2> QED BY <1>8, <2>2, <2>3 DEF Control!ReadBody
<1>9. CASE Control!Answer
  <2>1. PICK cred \in Control!Creds :
          IF server = "rpc" THEN Control!HandleRpc(cred) ELSE Control!Route(cred)
    BY <1>9 DEF Control!Answer
  <2>2. Control!CallsAreAuthorized'
    BY <2>1, RpcGuarded, RouteGuarded
  <2>3. UNCHANGED <<Control!who, Control!buffer, ws>>
    BY <1>9 DEF Control!Answer
  <2>4. CASE Control!NextRequest
    BY <2>2, <2>3, <2>4, NextRequestKeeps DEF SessionIsEntitled
  <2>5. CASE /\ \E why \in {"served", "write failed"} : Control!Close(why)
             /\ UNCHANGED <<Control!clock, begun>>
    BY <2>2, <2>3, <2>5, CloseKeeps DEF Control!buffer, ControlType, SessionIsEntitled
  <2> QED BY <1>9, <2>4, <2>5 DEF Control!Answer
<1>10. CASE Control!UpgradeToWebSocket
  <2>1. Control!CallsAreAuthorized' /\ UNCHANGED <<Control!who, Control!buffer>>
    BY <1>10, WorldGuarded DEF Control!UpgradeToWebSocket
  <2>2. CASE Control!NextRequest /\ ws' = ws
    BY <2>1, <2>2, NextRequestKeeps DEF SessionIsEntitled
  <2>3. CASE Control!Close("served") /\ UNCHANGED <<Control!clock, begun, ws>>
    BY <2>1, <2>3, CloseKeeps DEF Control!buffer, ControlType, SessionIsEntitled
  <2>4. CASE /\ \E cred \in Control!Creds :
                  /\ Control!UpgradeAllowed(cred)
                  /\ ws' = [silence |-> 0, pinged |-> FALSE, entitled |-> Control!Entitled(cred)]
             /\ pc' = "ws" /\ UNCHANGED <<Control!clock, begun>>
    <3>1. PICK cred \in Control!Creds :
            /\ cred = "right"
            /\ ws' = [silence |-> 0, pinged |-> FALSE, entitled |-> Control!Entitled(cred)]
      BY <2>4 DEF Control!UpgradeAllowed
    <3>2. Control!Entitled(cred) /\ Control!Entitled(cred) \in BOOLEAN
      BY <3>1 DEF Control!Entitled
    <3>3. Control!Entitled(cred) = TRUE
      BY <3>2
    <3>4. ws' \in WsRec /\ ws'.entitled
      BY <3>1, <3>3 DEF WsRec
    <3> QED BY <2>1, <2>4, <3>4
      DEF ControlType, BudgetIsKept, SessionIsEntitled, Control!who, Control!buffer, Control!clock
  <2> QED BY <1>10, <2>2, <2>3, <2>4 DEF Control!UpgradeToWebSocket
<1>11. CASE Control!WsMessage
  <2>1. Control!CallsAreAuthorized'
    BY <1>11, PayloadGuarded DEF Control!WsMessage, SessionIsEntitled
  <2>2. ahead' \in Nat /\ UNCHANGED <<Control!who, Control!clock, frag, begun>>
    BY <1>11 DEF Control!WsMessage, ControlType
  <2>3. ws' \in WsRec /\ ws'.entitled = ws.entitled
    BY <1>11 DEF Control!WsMessage, SessionIsEntitled, WsRec
  <2>4. CASE pc' = pc
    BY <2>1, <2>2, <2>3, <2>4
    DEF ControlType, BudgetIsKept, SessionIsEntitled, Control!who, Control!clock
  <2>5. CASE Control!Close("1011")
    BY <2>1, <2>2, <2>3, <2>5, CloseKeeps
  <2> QED BY <1>11, <2>4, <2>5 DEF Control!WsMessage
<1>12. CASE Control!WsClosed
  BY <1>12, CloseKeeps, WorldGuarded DEF Control!WsClosed, Control!buffer, ControlType,
     SessionIsEntitled
<1>13. CASE Control!WsPoll
  <2>1. Control!CallsAreAuthorized' /\ UNCHANGED <<Control!who, Control!clock, frag, begun>> /\ ahead' \in Nat
    BY <1>13, WorldGuarded DEF Control!WsPoll, Control!buffer, ControlType
  <2>2. CASE \E why \in {"1001", "ping failed"} : Control!Close(why) /\ ws' = ws
    BY <2>1, <2>2, CloseKeeps DEF SessionIsEntitled
  <2>3. CASE ws' = [ws EXCEPT !.pinged = TRUE] /\ pc' = pc
    BY <2>1, <2>3 DEF WsRec, ControlType, BudgetIsKept, SessionIsEntitled, Control!who,
       Control!clock
  <2> QED BY <1>13, <2>2, <2>3 DEF Control!WsPoll
<1> QED
  BY <1>1, <1>2, <1>3, <1>4, <1>5, <1>6, <1>7, <1>8, <1>9, <1>10, <1>11, <1>12, <1>13
  DEF Control!Next, Control!Step

LEMMA ControlInit ==
  ASSUME Control!ControlAssumption, Control!Init
  PROVE ControlInv
<1>1. phase \in PhaseRec /\ wait \in Nat /\ wait <= phase.left /\ phase.window
  BY PhaseFacts DEF Control!Init
<1>2. calls = {} /\ pc = "line"
  BY DEF Control!Init
<1> QED BY <1>1, <1>2
  DEF ControlInv, ControlType, BudgetIsKept, SessionIsEntitled, WsRec, Control!CallsAreAuthorized, Control!Init

\* Nothing reaches the engine for a peer that did not show the secret, and a
\* peer that drips its request holds its slot no longer than the budget of the
\* phase (src/rpc/http1.rs, server.rs, controller.rs), for every value of the
\* limits.
THEOREM ControlAlwaysGuarded ==
  ASSUME Control!ControlAssumption
  PROVE Control!Spec => []Control!ControlIsGuarded
<1>1. Control!Init => ControlInv
  BY ControlInit
<1>2. ControlInv /\ [Control!Next]_(Control!vars) => ControlInv'
  BY ControlNext
<1>3. ControlInv => Control!ControlIsGuarded
  BY DEF ControlInv, ControlType, BudgetIsKept, Control!ControlIsGuarded, Control!DripIsBounded,
         PhaseRec, Control!ControlAssumption
<1> QED BY <1>1, <1>2, <1>3, PTL DEF Control!Spec

(***************************************************************************)
(* TimerWheel                                                              *)
(***************************************************************************)

Timer == INSTANCE TimerWheel

InHand == tpc \in {"run", "resched"}

TimerType ==
  /\ now \in Nat /\ nextId \in Nat
  /\ heap \subseteq Nat \X Nat
  /\ entries \subseteq Timer!Entry
  /\ handle \in [Timer!Timers -> Nat]
  /\ flag \in [Timer!Timers -> BOOLEAN]
  /\ late \in [Timer!Timers -> Nat]
  /\ first \in [Timer!Timers -> Nat]
  /\ InHand => cur \in Timer!Entry

\* Identifiers grow, and a schedule that has an entry has been made.
IdsGrow ==
  /\ \A e \in entries : e.id <= nextId /\ handle[e.timer] # 0
  /\ \A h \in heap : h[2] <= nextId
  /\ InHand => handle[cur.timer] # 0

\* What is about to run was not cancelled when it was taken, so it has not run
\* late before.
LateIsFlagged ==
  /\ \A t \in Timer!Timers : late[t] > 0 => flag[t]
  /\ tpc = "run" => late[cur.timer] = 0
  /\ Timer!AtMostOneLateFire

\* A whole number of periods after the first deadline.
OnGrid(f, x, t) == \E k \in Nat : x = f[t] + k * Timer!PeriodOf(t)

\* The anchors are on the grid of their schedule, and so are the deadlines.
AnchorsOnGrid ==
  /\ \A e \in entries : Timer!PeriodOf(e.timer) > 0 => OnGrid(first, e.anchor, e.timer)
  /\ InHand /\ Timer!PeriodOf(cur.timer) > 0 => OnGrid(first, cur.anchor, cur.timer)
DeadlinesOnGrid ==
  \A e \in entries, h \in heap :
    e.id = h[2] /\ Timer!PeriodOf(e.timer) > 0 => OnGrid(first, h[1], e.timer)

TimerInv ==
  /\ TimerType
  /\ IdsGrow
  /\ Timer!OneEntryPerSchedule
  /\ LateIsFlagged
  /\ AnchorsOnGrid
  /\ DeadlinesOnGrid

-----------------------------------------------------------------------------
(* Arithmetic                                                              *)

\* A multiple leaves no rest.
LEMMA MultipleHasNoRest ==
  ASSUME NEW k \in Nat, NEW p \in Nat \ {0}
  PROVE (k * p) % p = 0
<1> DEFINE q == (k * p) \div p
           r == (k * p) % p
<1>1. k * p \in Nat
  OBVIOUS
<1>2. q \in Int /\ r \in 0 .. p - 1 /\ k * p = p * q + r
  BY <1>1
<1> HIDE DEF q, r
<1>3. (k - q) * p = r
  BY <1>2
<1>4. CASE k - q <= 0
  <2>1. (k - q) * p <= 0
    BY <1>2, <1>4
  <2> QED BY <1>2, <1>3, <2>1 DEF r
<1>5. CASE k - q >= 1
  <2>1. (k - q) * p >= p
    BY <1>2, <1>5
  <2> QED BY <1>2, <1>3, <2>1
<1> QED BY <1>2, <1>4, <1>5

\* The loop that skips missed ticks stays on the grid.
LEMMA SkipsWholePeriods ==
  ASSUME NEW a \in Int, NEW p \in Nat \ {0}, NEW t \in Nat
  PROVE \E m \in Nat \ {0} : Timer!NextDeadline(a, p, t) = a + m * p
<1>1. CASE a + p > t
  <2>1. Timer!NextDeadline(a, p, t) = a + 1 * p
    BY <1>1 DEF Timer!NextDeadline
  <2> QED BY <2>1
<1>2. CASE ~(a + p > t)
  <2> DEFINE m == 1 + (t - a) \div p
  <2>1. t - a \in Nat
    BY <1>2
  <2>2. (t - a) \div p \in Nat
    BY <2>1
  <2>3. m \in Nat \ {0}
    BY <2>2
  <2>4. Timer!NextDeadline(a, p, t) = a + p * m
    BY <1>2 DEF Timer!NextDeadline
  <2> HIDE DEF m
  <2> QED BY <2>3, <2>4
<1> QED BY <1>1, <1>2

LEMMA PeriodIsNat ==
  ASSUME Timer!TimerAssumption, NEW t \in Timer!Timers
  PROVE Timer!PeriodOf(t) \in Nat
  BY DEF Timer!TimerAssumption, Timer!PeriodOf

-----------------------------------------------------------------------------
(* One lemma per conjunct                                                  *)

LEMMA TimerTypeNext ==
  ASSUME Timer!TimerAssumption, TimerInv, Timer!Next
  PROVE TimerType'
<1> USE DEF TimerType, InHand, Timer!clients
<1>1. TimerType
  BY DEF TimerInv
<1>2. CASE Timer!RunShutdown \/ Timer!RunPark \/ Timer!RunDeadline
  BY <1>1, <1>2 DEF Timer!RunShutdown, Timer!RunPark, Timer!RunDeadline
<1>3. CASE Timer!RunPop
  BY <1>1, <1>3 DEF Timer!RunPop
<1>4. CASE Timer!RunJob
  BY <1>1, <1>4 DEF Timer!RunJob, Timer!Entry
<1>5. CASE Timer!RunReschedule
  <2>1. CASE Timer!PeriodOf(cur.timer) = 0
    BY <1>1, <1>5, <2>1 DEF Timer!RunReschedule
  <2>2. CASE Timer!PeriodOf(cur.timer) > 0
    <3> DEFINE p == Timer!PeriodOf(cur.timer)
               d == Timer!NextDeadline(cur.anchor, p, now)
    <3>1. cur \in Timer!Entry /\ cur.timer \in Timer!Timers /\ cur.anchor \in Int
      BY <1>1, <1>5 DEF Timer!RunReschedule, Timer!Entry
    <3>2. p \in Nat \ {0}
      BY <2>2, <3>1, PeriodIsNat
    <3>3. /\ nextId' = nextId + 1 /\ heap' = heap \cup {<<d, nextId + 1>>}
          /\ entries' = entries \cup {[id |-> nextId + 1, timer |-> cur.timer, anchor |-> d - p]}
          /\ tpc' = "scan" /\ UNCHANGED <<now, late, Timer!clients>>
      BY <1>5, <2>2, <3>2 DEF Timer!RunReschedule
    <3>4. PICK k \in Nat : cur.anchor = first[cur.timer] + k * p
      BY <1>5, <2>2 DEF TimerInv, AnchorsOnGrid, OnGrid, Timer!RunReschedule
    <3>5. PICK m \in Nat \ {0} : d = cur.anchor + m * p
      BY <3>1, <3>2, <1>1, SkipsWholePeriods
    <3> HIDE DEF p, d
    <3>6. k * p \in Nat /\ m * p \in Nat /\ first[cur.timer] \in Nat
      BY <1>1, <3>1, <3>2
    <3>7. d \in Nat
      BY <3>4, <3>5, <3>6
    <3>8. [id |-> nextId + 1, timer |-> cur.timer, anchor |-> d - p] \in Timer!Entry
      BY <1>1, <3>1, <3>2, <3>7 DEF Timer!Entry
    <3> QED BY <1>1, <3>3, <3>7, <3>8
  <2> QED BY <1>1, <1>5, <2>1, <2>2 DEF Timer!RunReschedule
<1>6. ASSUME NEW t \in Timer!Timers, NEW d \in Nat, Timer!Insert(t, d)
      PROVE TimerType'
  <2>1. [id |-> nextId + 1, timer |-> t, anchor |-> now + d] \in Timer!Entry
    BY <1>1 DEF Timer!Entry
  <2>2. now + d \in Nat /\ nextId + 1 \in Nat
    BY <1>1
  <2> QED BY <1>1, <1>6, <2>1, <2>2 DEF Timer!Insert, Timer!Notify
<1>7. ASSUME NEW t \in Timer!Timers, Timer!After(t) \/ Timer!Every(t)
      PROVE TimerType'
  BY <1>6, <1>7 DEF Timer!After, Timer!Every, Timer!TimerAssumption
<1>8. ASSUME NEW t \in Timer!Timers, Timer!CancelSwap(t) \/ Timer!CancelRemove(t)
      PROVE TimerType'
  BY <1>1, <1>8 DEF Timer!CancelSwap, Timer!CancelRemove, Timer!Notify
<1>9. CASE Timer!DropTimer \/ Timer!DropNotify \/ Timer!DropJoin \/ Timer!Tick
  BY <1>1, <1>9 DEF Timer!DropTimer, Timer!DropNotify, Timer!DropJoin, Timer!Tick, Timer!Notify
<1> QED BY <1>2, <1>3, <1>4, <1>5, <1>7, <1>8, <1>9 DEF Timer!Next, Timer!Run

\* The steps that change neither a table, the thread's hand nor a schedule.
Still == UNCHANGED <<heap, entries, nextId, handle, flag, cur, late, first>>

LEMMA StillSteps ==
  ASSUME Timer!RunShutdown \/ Timer!RunPark \/ Timer!RunDeadline \/ Timer!DropTimer
           \/ Timer!DropNotify \/ Timer!DropJoin \/ Timer!Tick
  PROVE Still /\ (InHand' => InHand) /\ (tpc' = "run" => tpc = "run")
  BY DEF Still, InHand, Timer!RunShutdown, Timer!RunPark, Timer!RunDeadline, Timer!DropTimer,
         Timer!DropNotify, Timer!DropJoin, Timer!Tick, Timer!Notify, Timer!clients

\* What is popped: an entry of the table, not cancelled, or nothing to run.
LEMMA PopFacts ==
  ASSUME Timer!RunPop
  PROVE /\ entries' \subseteq entries /\ heap' \subseteq heap
        /\ UNCHANGED <<nextId, handle, flag, late, first>>
        /\ \/ tpc' = "scan" /\ cur' = cur
           \/ /\ cur' \in entries /\ ~flag[cur'.timer] /\ tpc' = "run"
              /\ \A e \in entries' : e.id # cur'.id
  BY DEF Timer!RunPop, Timer!clients

\* What is put in: one entry and one deadline, under a fresh id.
Put(t, d, a) ==
  /\ nextId' = nextId + 1
  /\ heap' = heap \cup {<<d, nextId + 1>>}
  /\ entries' = entries \cup {[id |-> nextId + 1, timer |-> t, anchor |-> a]}

LEMMA InsertFacts ==
  ASSUME Timer!TimerAssumption, TimerType, NEW t \in Timer!Timers, Timer!After(t) \/ Timer!Every(t)
  PROVE \E d \in Nat :
          /\ handle[t] = 0 /\ Put(t, now + d, now + d)
          /\ handle' = [handle EXCEPT ![t] = nextId + 1]
          /\ first' = [first EXCEPT ![t] = now + d]
          /\ InHand' = InHand /\ (tpc' = "run" => tpc = "run")
          /\ UNCHANGED <<flag, cur, late>>
  BY DEF Timer!After, Timer!Every, Timer!Insert, Timer!Notify, Put, InHand, Timer!TimerAssumption

LEMMA RescheduleFacts ==
  ASSUME Timer!TimerAssumption, TimerInv, Timer!RunReschedule
  PROVE /\ InHand /\ ~InHand' /\ tpc' # "run" /\ cur.timer \in Timer!Timers
        /\ UNCHANGED <<handle, flag, cur, late, first>>
        /\ \/ UNCHANGED <<heap, entries, nextId>>
           \/ \E p \in Nat \ {0}, k \in Nat, m \in Nat \ {0}, x \in Nat :
                /\ p = Timer!PeriodOf(cur.timer)
                /\ x = first[cur.timer] + k * p + m * p
                /\ Put(cur.timer, x, x - p)
<1> DEFINE p == Timer!PeriodOf(cur.timer)
           d == Timer!NextDeadline(cur.anchor, p, now)
<1>1. tpc = "resched" /\ UNCHANGED <<handle, flag, cur, late, first>> /\ tpc' \in {"spin", "scan"}
  BY DEF Timer!RunReschedule, Timer!clients
<1>2. cur \in Timer!Entry /\ cur.timer \in Timer!Timers /\ cur.anchor \in Int /\ now \in Nat
  BY <1>1 DEF TimerInv, TimerType, InHand, Timer!Entry
<1>3. p \in Nat
  BY <1>2, PeriodIsNat
<1>4. CASE p = 0
  BY <1>1, <1>2, <1>4 DEF Timer!RunReschedule, InHand
<1>5. CASE p > 0
  <2>1. p \in Nat \ {0}
    BY <1>3, <1>5
  <2>2. Put(cur.timer, d, d - p)
    BY <2>1, <1>5 DEF Timer!RunReschedule, Put
  <2>3. PICK k \in Nat : cur.anchor = first[cur.timer] + k * p
    BY <1>1, <1>5 DEF TimerInv, AnchorsOnGrid, OnGrid, InHand
  <2>4. PICK m \in Nat \ {0} : d = cur.anchor + m * p
    BY <1>2, <2>1, SkipsWholePeriods
  <2>5. d = first[cur.timer] + k * p + m * p
    BY <2>3, <2>4
  <2>6. first[cur.timer] \in Nat /\ k * p \in Nat /\ m * p \in Nat
    BY <1>2, <2>1 DEF TimerInv, TimerType
  <2>7. d \in Nat
    BY <2>5, <2>6
  <2>8. p = Timer!PeriodOf(cur.timer)
    OBVIOUS
  <2> HIDE DEF d, p
  <2>9. \E pp \in Nat \ {0}, kk \in Nat, mm \in Nat \ {0}, x \in Nat :
          /\ pp = Timer!PeriodOf(cur.timer)
          /\ x = first[cur.timer] + kk * pp + mm * pp
          /\ Put(cur.timer, x, x - pp)
    BY <2>1, <2>2, <2>5, <2>7, <2>8
  <2>10. InHand /\ ~InHand' /\ tpc' # "run"
    BY <1>1 DEF InHand
  <2> QED BY <1>1, <1>2, <2>9, <2>10
<1>6. p = 0 \/ p > 0
  BY <1>3
<1> HIDE DEF p, d
<1> QED BY <1>4, <1>5, <1>6

LEMMA IdsNext ==
  ASSUME Timer!TimerAssumption, TimerInv, Timer!Next
  PROVE IdsGrow'
<1> USE DEF IdsGrow
<1>1. TimerType /\ IdsGrow
  BY DEF TimerInv
<1>2. CASE Still /\ (InHand' => InHand)
  BY <1>1, <1>2 DEF Still
<1>3. CASE Timer!RunPop
  BY <1>1, <1>3, PopFacts DEF InHand
<1>4. CASE Timer!RunJob
  BY <1>1, <1>4 DEF Timer!RunJob, InHand, Timer!clients
<1>5. CASE Timer!RunReschedule
  <2>1. CASE UNCHANGED <<heap, entries, nextId>>
    BY <1>1, <1>5, <2>1, RescheduleFacts
  <2>2. CASE \E d, a : Put(cur.timer, d, a)
    <3>1. PICK d, a : Put(cur.timer, d, a)
      BY <2>2
    <3>2. /\ \A e \in entries' : e \in entries \/ (e.id = nextId + 1 /\ e.timer = cur.timer)
          /\ \A h \in heap' : h \in heap \/ h[2] = nextId + 1
      BY <3>1 DEF Put
    <3>3. handle[cur.timer] # 0 /\ UNCHANGED handle /\ ~InHand'
      BY <1>1, <1>5, RescheduleFacts
    <3>4. nextId' = nextId + 1 /\ nextId \in Nat
      BY <1>1, <3>1 DEF Put, TimerType
    <3>5. /\ \A e \in entries : e.id \in Nat
          /\ \A h \in heap : h[2] \in Nat
      BY <1>1 DEF TimerType, Timer!Entry
    <3> QED BY <1>1, <3>2, <3>3, <3>4, <3>5
  <2> QED BY <1>5, <2>1, <2>2, RescheduleFacts
<1>6. ASSUME NEW t \in Timer!Timers, Timer!After(t) \/ Timer!Every(t)
      PROVE IdsGrow'
  <2>1. PICK d \in Nat :
          /\ handle[t] = 0 /\ Put(t, now + d, now + d)
          /\ handle' = [handle EXCEPT ![t] = nextId + 1]
          /\ InHand' = InHand /\ UNCHANGED cur
    BY <1>1, <1>6, InsertFacts
  <2>2. /\ \A e \in entries' : e \in entries \/ (e.id = nextId + 1 /\ e.timer = t)
        /\ \A h \in heap' : h \in heap \/ h[2] = nextId + 1
        /\ nextId' = nextId + 1 /\ nextId \in Nat
    BY <1>1, <2>1 DEF Put, TimerType
  <2>3. \A u \in Timer!Timers : handle'[u] = IF u = t THEN nextId + 1 ELSE handle[u]
    BY <1>1, <2>1 DEF TimerType
  <2>4. /\ \A e \in entries : e.id \in Nat /\ e.timer \in Timer!Timers
        /\ \A h \in heap : h[2] \in Nat
        /\ InHand => cur.timer \in Timer!Timers
    BY <1>1 DEF TimerType, Timer!Entry
  <2> QED BY <1>1, <2>1, <2>2, <2>3, <2>4
<1>7. ASSUME NEW t \in Timer!Timers, Timer!CancelSwap(t) \/ Timer!CancelRemove(t)
      PROVE IdsGrow'
  BY <1>1, <1>7 DEF Timer!CancelSwap, Timer!CancelRemove, Timer!Notify, InHand
<1> QED BY <1>2, <1>3, <1>4, <1>5, <1>6, <1>7, StillSteps DEF Timer!Next, Timer!Run

LEMMA OneEntryNext ==
  ASSUME Timer!TimerAssumption, TimerInv, Timer!Next
  PROVE Timer!OneEntryPerSchedule'
<1> USE DEF Timer!OneEntryPerSchedule, InHand
<1>1. TimerType /\ IdsGrow /\ Timer!OneEntryPerSchedule
  BY DEF TimerInv
<1>2. CASE Still /\ (InHand' => InHand)
  BY <1>1, <1>2 DEF Still
<1>3. CASE Timer!RunPop
  BY <1>1, <1>3, PopFacts
<1>4. CASE Timer!RunJob
  BY <1>1, <1>4 DEF Timer!RunJob
<1>5. CASE Timer!RunReschedule
  <2>1. CASE UNCHANGED entries
    BY <1>1, <1>5, <2>1, RescheduleFacts
  <2>2. CASE \E d, a : Put(cur.timer, d, a)
    <3>1. PICK d, a : entries' = entries \cup {[id |-> nextId + 1, timer |-> cur.timer, anchor |-> a]}
      BY <2>2 DEF Put
    <3>2. ~InHand' /\ \A e \in entries : e.timer # cur.timer
      BY <1>1, <1>5, RescheduleFacts
    <3> QED BY <1>1, <3>1, <3>2
  <2> QED BY <1>5, <2>1, <2>2, RescheduleFacts
<1>6. ASSUME NEW t \in Timer!Timers, Timer!After(t) \/ Timer!Every(t)
      PROVE Timer!OneEntryPerSchedule'
  <2>1. PICK d \in Nat :
          /\ handle[t] = 0 /\ InHand' = InHand /\ UNCHANGED cur
          /\ entries' = entries \cup {[id |-> nextId + 1, timer |-> t, anchor |-> now + d]}
    BY <1>1, <1>6, InsertFacts DEF Put
  <2>2. \A e \in entries : e.timer # t
    BY <1>1, <2>1 DEF IdsGrow
  <2>3. InHand => cur.timer # t
    BY <1>1, <2>1 DEF IdsGrow
  <2> QED BY <1>1, <2>1, <2>2, <2>3
<1>7. ASSUME NEW t \in Timer!Timers, Timer!CancelSwap(t) \/ Timer!CancelRemove(t)
      PROVE Timer!OneEntryPerSchedule'
  BY <1>1, <1>7 DEF Timer!CancelSwap, Timer!CancelRemove, Timer!Notify
<1> QED BY <1>2, <1>3, <1>4, <1>5, <1>6, <1>7, StillSteps DEF Timer!Next, Timer!Run

LEMMA LateNext ==
  ASSUME Timer!TimerAssumption, TimerInv, Timer!Next
  PROVE LateIsFlagged'
<1> USE DEF LateIsFlagged, Timer!AtMostOneLateFire
<1>1. TimerType /\ LateIsFlagged
  BY DEF TimerInv
<1>2. CASE Still /\ (tpc' = "run" => tpc = "run")
  BY <1>1, <1>2 DEF Still
<1>3. CASE Timer!RunPop
  <2>1. CASE cur' \in entries /\ ~flag[cur'.timer] /\ tpc' = "run"
    <3>1. cur'.timer \in Timer!Timers
      BY <1>1, <2>1 DEF TimerType, Timer!Entry
    <3>2. late[cur'.timer] = 0
      BY <1>1, <2>1, <3>1 DEF TimerType
    <3> QED BY <1>1, <1>3, <2>1, <3>2, PopFacts
  <2> QED BY <1>1, <1>3, <2>1, PopFacts
<1>4. CASE Timer!RunJob
  <2>1. cur.timer \in Timer!Timers /\ late[cur.timer] = 0 /\ tpc' # "run" /\ UNCHANGED flag
    BY <1>1, <1>4 DEF Timer!RunJob, TimerType, InHand, Timer!Entry, Timer!clients
  <2>2. late' = [late EXCEPT ![cur.timer] = IF flag[cur.timer] THEN @ + 1 ELSE @]
    BY <1>4 DEF Timer!RunJob
  <2>3. \A t \in Timer!Timers :
          late'[t] = IF t = cur.timer THEN (IF flag[t] THEN 1 ELSE 0) ELSE late[t]
    BY <1>1, <2>1, <2>2 DEF TimerType
  <2> QED BY <1>1, <2>1, <2>3
<1>5. CASE Timer!RunReschedule
  BY <1>1, <1>5, RescheduleFacts
<1>6. ASSUME NEW t \in Timer!Timers, Timer!After(t) \/ Timer!Every(t)
      PROVE LateIsFlagged'
  BY <1>1, <1>6, InsertFacts
<1>7. ASSUME NEW t \in Timer!Timers, Timer!CancelSwap(t) \/ Timer!CancelRemove(t)
      PROVE LateIsFlagged'
  BY <1>1, <1>7 DEF Timer!CancelSwap, Timer!CancelRemove, Timer!Notify, TimerType
<1> QED BY <1>2, <1>3, <1>4, <1>5, <1>6, <1>7, StillSteps DEF Timer!Next, Timer!Run

LEMMA GridNext ==
  ASSUME Timer!TimerAssumption, TimerInv, Timer!Next
  PROVE AnchorsOnGrid' /\ DeadlinesOnGrid'
<1> USE DEF AnchorsOnGrid, DeadlinesOnGrid
<1>1. TimerType /\ IdsGrow /\ AnchorsOnGrid /\ DeadlinesOnGrid
  BY DEF TimerInv
<1>2. CASE Still /\ (InHand' => InHand)
  BY <1>1, <1>2 DEF Still, OnGrid
<1>3. CASE Timer!RunPop
  <2>1. entries' \subseteq entries /\ heap' \subseteq heap /\ UNCHANGED first
    BY <1>3, PopFacts
  <2>2. InHand' => cur' \in entries
    BY <1>3, PopFacts DEF InHand
  <2> QED BY <1>1, <2>1, <2>2 DEF OnGrid
<1>4. CASE Timer!RunJob
  BY <1>1, <1>4 DEF Timer!RunJob, InHand, Timer!clients, OnGrid
<1>5. CASE Timer!RunReschedule
  <2>1. CASE UNCHANGED <<heap, entries, nextId>>
    BY <1>1, <1>5, <2>1, RescheduleFacts DEF OnGrid
  <2>2. CASE ~UNCHANGED <<heap, entries, nextId>>
    <3>1. PICK p \in Nat \ {0}, k \in Nat, m \in Nat \ {0}, x \in Nat :
            /\ p = Timer!PeriodOf(cur.timer)
            /\ x = first[cur.timer] + k * p + m * p
            /\ Put(cur.timer, x, x - p)
      BY <1>5, <2>2, RescheduleFacts
    <3>2. UNCHANGED <<cur, first>> /\ ~InHand' /\ cur.timer \in Timer!Timers
      BY <1>5, RescheduleFacts
    <3>3. first[cur.timer] \in Nat
      BY <1>1, <3>2 DEF TimerType
    <3>4. x = first[cur.timer] + (k + m) * p /\ x - p = first[cur.timer] + (k + (m - 1)) * p
      BY <3>1, <3>3
    <3>5. OnGrid(first', x, cur.timer) /\ OnGrid(first', x - p, cur.timer)
      <4>1. k + m \in Nat /\ k + (m - 1) \in Nat
        OBVIOUS
      <4> QED BY <3>1, <3>2, <3>4, <4>1 DEF OnGrid
    <3>6. /\ \A e \in entries' : e \in entries \/ (e.id = nextId + 1 /\ e.timer = cur.timer /\ e.anchor = x - p)
          /\ \A h \in heap' : h \in heap \/ (h[2] = nextId + 1 /\ h[1] = x)
      BY <3>1 DEF Put
    <3>7. /\ \A e \in entries : e.id <= nextId /\ e.id \in Nat
          /\ \A h \in heap : h[2] <= nextId /\ h[2] \in Nat
          /\ nextId \in Nat
      BY <1>1 DEF IdsGrow, TimerType, Timer!Entry
    <3>8. \A e \in entries' : Timer!PeriodOf(e.timer) > 0 => OnGrid(first', e.anchor, e.timer)
      BY <1>1, <3>2, <3>5, <3>6 DEF OnGrid
    <3>9. \A e \in entries', h \in heap' :
            e.id = h[2] /\ Timer!PeriodOf(e.timer) > 0 => OnGrid(first', h[1], e.timer)
      <4> SUFFICES ASSUME NEW e \in entries', NEW h \in heap', e.id = h[2], Timer!PeriodOf(e.timer) > 0
                   PROVE OnGrid(first', h[1], e.timer)
        OBVIOUS
      <4>1. CASE e \in entries /\ h \in heap
        BY <1>1, <3>2, <4>1 DEF OnGrid
      <4>2. CASE e.timer = cur.timer /\ h[1] = x
        BY <3>5, <4>2 DEF OnGrid
      <4> QED BY <3>6, <3>7, <4>1, <4>2
    <3> QED BY <3>2, <3>8, <3>9
  <2> QED BY <2>1, <2>2
<1>6. ASSUME NEW t \in Timer!Timers, Timer!After(t) \/ Timer!Every(t)
      PROVE AnchorsOnGrid' /\ DeadlinesOnGrid'
  <2>1. PICK d \in Nat :
          /\ handle[t] = 0 /\ Put(t, now + d, now + d)
          /\ first' = [first EXCEPT ![t] = now + d]
          /\ InHand' = InHand /\ UNCHANGED cur
    BY <1>1, <1>6, InsertFacts
  <2>2. \A u \in Timer!Timers : first'[u] = IF u = t THEN now + d ELSE first[u]
    BY <1>1, <2>1 DEF TimerType
  <2>3. OnGrid(first', now + d, t)
    <3>1. Timer!PeriodOf(t) \in Nat /\ now + d \in Nat /\ first'[t] = now + d
      BY <1>1, <2>2, PeriodIsNat DEF TimerType
    <3>2. first'[t] = first'[t] + 0 * Timer!PeriodOf(t)
      BY <3>1
    <3> QED BY <3>1, <3>2 DEF OnGrid
  <2>4. \A x, u : u \in Timer!Timers /\ u # t /\ OnGrid(first, x, u) => OnGrid(first', x, u)
    BY <2>2 DEF OnGrid
  <2>5. /\ \A e \in entries : e.timer # t /\ e.timer \in Timer!Timers /\ e.id <= nextId /\ e.id \in Nat
        /\ \A h \in heap : h[2] <= nextId /\ h[2] \in Nat
        /\ InHand => cur.timer # t /\ cur.timer \in Timer!Timers
        /\ nextId \in Nat
    BY <1>1, <2>1 DEF IdsGrow, TimerType, Timer!Entry
  <2>6. /\ \A e \in entries' : e \in entries \/ (e.id = nextId + 1 /\ e.timer = t /\ e.anchor = now + d)
        /\ \A h \in heap' : h \in heap \/ (h[2] = nextId + 1 /\ h[1] = now + d)
    BY <2>1 DEF Put
  <2>7. AnchorsOnGrid'
    <3>1. \A e \in entries' : Timer!PeriodOf(e.timer) > 0 => OnGrid(first', e.anchor, e.timer)
      <4> TAKE e \in entries'
      <4>1. CASE e \in entries
        BY <1>1, <2>4, <2>5, <4>1
      <4>2. CASE e.timer = t /\ e.anchor = now + d
        BY <2>3, <4>2 DEF OnGrid
      <4> QED BY <2>6, <4>1, <4>2
    <3>2. InHand /\ Timer!PeriodOf(cur.timer) > 0 => OnGrid(first', cur.anchor, cur.timer)
      BY <1>1, <2>1, <2>4, <2>5 DEF OnGrid
    <3> QED BY <2>1, <3>1, <3>2 DEF OnGrid
  <2>8. \A e \in entries', h \in heap' :
          e.id = h[2] /\ Timer!PeriodOf(e.timer) > 0 => OnGrid(first', h[1], e.timer)
    <3> SUFFICES ASSUME NEW e \in entries', NEW h \in heap', e.id = h[2], Timer!PeriodOf(e.timer) > 0
                 PROVE OnGrid(first', h[1], e.timer)
      OBVIOUS
    <3>1. CASE e \in entries /\ h \in heap
      BY <1>1, <2>4, <2>5, <3>1
    <3>2. CASE e.timer = t /\ h[1] = now + d
      BY <2>3, <3>2 DEF OnGrid
    <3> QED BY <2>5, <2>6, <3>1, <3>2
  <2> QED BY <2>7, <2>8
<1>7. ASSUME NEW t \in Timer!Timers, Timer!CancelSwap(t) \/ Timer!CancelRemove(t)
      PROVE AnchorsOnGrid' /\ DeadlinesOnGrid'
  <2>1. entries' \subseteq entries /\ UNCHANGED <<heap, cur, first>> /\ (InHand' => InHand)
    BY <1>7 DEF Timer!CancelSwap, Timer!CancelRemove, Timer!Notify, InHand
  <2> QED BY <1>1, <2>1 DEF OnGrid
<1> QED BY <1>2, <1>3, <1>4, <1>5, <1>6, <1>7, StillSteps DEF Timer!Next, Timer!Run

LEMMA TimerInit ==
  ASSUME Timer!TimerAssumption, Timer!Init
  PROVE TimerInv
  BY DEF Timer!Init, TimerInv, TimerType, InHand, IdsGrow, LateIsFlagged, AnchorsOnGrid,
         DeadlinesOnGrid, Timer!OneEntryPerSchedule, Timer!AtMostOneLateFire, Timer!TimerAssumption

LEMMA TimerNext ==
  ASSUME Timer!TimerAssumption, TimerInv, [Timer!Next]_(Timer!vars)
  PROVE TimerInv'
<1>1. CASE Timer!Next
  BY <1>1, TimerTypeNext, IdsNext, OneEntryNext, LateNext, GridNext DEF TimerInv
<1>2. CASE UNCHANGED Timer!vars
  BY <1>2 DEF Timer!vars, TimerInv, TimerType, InHand, IdsGrow, LateIsFlagged, AnchorsOnGrid,
     DeadlinesOnGrid, OnGrid, Timer!OneEntryPerSchedule, Timer!AtMostOneLateFire
<1> QED BY <1>1, <1>2

\* What is on the grid has no rest.
LEMMA GridHasNoRest ==
  ASSUME Timer!TimerAssumption, TimerInv
  PROVE Timer!NoDrift
<1> SUFFICES ASSUME NEW e \in entries, NEW h \in heap, e.id = h[2], Timer!PeriodOf(e.timer) > 0
             PROVE /\ h[1] >= first[e.timer]
                   /\ (h[1] - first[e.timer]) % Timer!PeriodOf(e.timer) = 0
  BY DEF Timer!NoDrift
<1>1. e.timer \in Timer!Timers /\ first[e.timer] \in Nat
  BY DEF TimerInv, TimerType, Timer!Entry
<1>2. Timer!PeriodOf(e.timer) \in Nat \ {0}
  BY <1>1, PeriodIsNat
<1>3. PICK k \in Nat : h[1] = first[e.timer] + k * Timer!PeriodOf(e.timer)
  BY DEF TimerInv, DeadlinesOnGrid, OnGrid
<1>4. k * Timer!PeriodOf(e.timer) \in Nat /\ h[1] - first[e.timer] = k * Timer!PeriodOf(e.timer)
  BY <1>1, <1>2, <1>3
<1>5. (k * Timer!PeriodOf(e.timer)) % Timer!PeriodOf(e.timer) = 0
  BY <1>2, MultipleHasNoRest
<1>6. h[1] >= first[e.timer]
  BY <1>1, <1>3, <1>4
<1>7. (h[1] - first[e.timer]) % Timer!PeriodOf(e.timer) = 0
  BY <1>4, <1>5
<1> QED BY <1>6, <1>7

\* The timer (src/common/timer.rs) never has two entries of a schedule, runs a
\* cancelled schedule at most once more, and keeps every deadline a whole number
\* of periods after the first: for any schedules, periods and delays, however
\* late the callbacks run.
THEOREM TimerAlwaysExact ==
  ASSUME Timer!TimerAssumption
  PROVE Timer!Spec => []Timer!TimerIsExact
<1>1. Timer!Init => TimerInv
  BY TimerInit
<1>2. TimerInv /\ [Timer!Next]_(Timer!vars) => TimerInv'
  BY TimerNext
<1>3. TimerInv => Timer!TimerIsExact
  BY GridHasNoRest DEF TimerInv, LateIsFlagged, Timer!TimerIsExact
<1> QED BY <1>1, <1>2, <1>3, PTL DEF Timer!Spec

(***************************************************************************)
(* ConfigPipeline                                                          *)
(***************************************************************************)

Config == INSTANCE ConfigPipeline

CallRec == [op : Config!Ops, doc : Docs]
ReloadStates == {"reloadRouter", "reloadInbounds", "reloadOutbounds"}

Fields == {"shared", "own", "rules", "listeners", "rmgr", "registry", "table", "members", "strict",
           "reloaded", "settled"}
IsEngine(e) == e = [f \in Fields |-> e[f]]

Places == {"idle", "ruleProviders", "proxyProviders", "parse", "clear", "validate", "router",
           "outbounds", "set", "reload"} \cup ReloadStates

\* The validator took the document: its rules send to its own tags, and where it
\* saw no provider the members of its group are tags or builtin.
Checked(e, d) ==
  /\ e.shared = d /\ e.own = d /\ ~e.reloaded
  /\ d.targets \subseteq Config!Tags(d)
  /\ e.strict => Config!Members(d) \subseteq Config!Tags(d) \cup Builtins

\* The router's part of the engine is the document's.
Routed(e, d) == e.rules = d /\ d.sets \subseteq e.rmgr

\* The outbounds are the document's, and so are the listeners.
Furnished(e, d) ==
  /\ e.members = Config!Members(d) /\ e.listeners = d
  /\ e.registry = Config!Tags(d) \cup Config!Nodes(e.table)

\* What a call has built so far.
BuiltSoFar(c) ==
  LET e == built[c]
      d == Config!Doc(c)
  IN /\ IsEngine(e) /\ ~e.reloaded
     /\ pc[c] \in {"router", "outbounds", "set"} => Checked(e, d)
     /\ pc[c] \in {"outbounds", "set"} => Routed(e, d)
     /\ pc[c] = "set" => Furnished(e, d)

\* A reload holds the engine's lock, and has put its document where it says.
ReloadHolds ==
  /\ \A c \in Callers : pc[c] \in ReloadStates => lock = c
  /\ lock # None =>
       /\ lock \in Callers /\ pc[lock] \in ReloadStates
       /\ IsEngine(engine) /\ engine.reloaded /\ ~engine.settled
       /\ engine.shared = Config!Doc(lock)
       /\ pc[lock] \in {"reloadInbounds", "reloadOutbounds"} => engine.rules = Config!Doc(lock)
       /\ pc[lock] = "reloadOutbounds" => engine.listeners = Config!Doc(lock)

ConfigInv ==
  /\ pc \in [Callers -> Places] /\ call \in [Callers -> CallRec \cup {None}]
  /\ DOMAIN built = Callers /\ built = [c \in Callers |-> built[c]]
  /\ \A c \in Callers : pc[c] # "idle" => call[c] \in CallRec
  /\ \A c \in Callers : BuiltSoFar(c)
  /\ ReloadHolds
  /\ engine # None => IsEngine(engine)
  /\ Config!InstalledIsWhole

-----------------------------------------------------------------------------
(* One caller moves                                                        *)

\* A step of one caller leaves the others where they are.
Moves(c, l) ==
  /\ pc' = [pc EXCEPT ![c] = l]
  /\ call' = call

LEMMA OthersStay ==
  ASSUME ConfigInv, NEW c \in Callers, NEW l \in Places, Moves(c, l), l # "idle" => pc[c] # "idle",
         NEW e, built' = [built EXCEPT ![c] = e], IsEngine(e), ~e.reloaded,
         l \in {"router", "outbounds", "set"} => Checked(e, Config!Doc(c)),
         l \in {"outbounds", "set"} => Routed(e, Config!Doc(c)),
         l = "set" => Furnished(e, Config!Doc(c))
  PROVE /\ pc' \in [Callers -> Places] /\ call' \in [Callers -> CallRec \cup {None}]
        /\ DOMAIN built' = Callers /\ built' = [x \in Callers |-> built'[x]]
        /\ \A x \in Callers : pc'[x] # "idle" => call'[x] \in CallRec
        /\ \A x \in Callers : BuiltSoFar(x)'
<1>1. pc' \in [Callers -> Places] /\ \A x \in Callers : pc'[x] = IF x = c THEN l ELSE pc[x]
  BY DEF ConfigInv, Moves
<1>2. /\ DOMAIN built' = Callers /\ built' = [x \in Callers |-> built'[x]]
      /\ \A x \in Callers : built'[x] = IF x = c THEN e ELSE built[x]
  BY DEF ConfigInv
<1>3. call' = call /\ call' \in [Callers -> CallRec \cup {None}]
  BY DEF ConfigInv, Moves
<1>4. \A x \in Callers : pc'[x] # "idle" => call'[x] \in CallRec
  BY <1>1, <1>3 DEF ConfigInv
<1>5. \A x \in Callers : BuiltSoFar(x)'
  <2> TAKE x \in Callers
  <2>1. BuiltSoFar(x)
    BY DEF ConfigInv
  <2>2. CASE x = c
    BY <1>1, <1>2, <1>3, <2>2 DEF BuiltSoFar, Config!Doc
  <2>3. CASE x # c
    BY <1>1, <1>2, <1>3, <2>1, <2>3 DEF BuiltSoFar, Config!Doc
  <2> QED BY <2>2, <2>3
<1> QED BY <1>1, <1>2, <1>3, <1>4, <1>5

\* A caller that is not reloading leaves the reload of another alone.
LEMMA ReloadStays ==
  ASSUME ConfigInv, NEW c \in Callers, NEW l \in Places, Moves(c, l), l \notin ReloadStates,
         pc[c] \notin ReloadStates, UNCHANGED <<lock, engine>>
  PROVE ReloadHolds' /\ (engine' # None => IsEngine(engine')) /\ Config!InstalledIsWhole'
<1>1. \A x \in Callers : pc'[x] = IF x = c THEN l ELSE pc[x]
  BY DEF ConfigInv, Moves
<1>2. ReloadHolds /\ (engine # None => IsEngine(engine)) /\ Config!InstalledIsWhole
  BY DEF ConfigInv
<1>3. lock # None => lock # c
  BY <1>2 DEF ReloadHolds
<1>4. ReloadHolds'
  BY <1>1, <1>2, <1>3 DEF ReloadHolds, Moves, Config!Doc
<1>5. Config!InstalledIsWhole'
  BY <1>2 DEF Config!InstalledIsWhole, Config!InstalledResolves, Config!OneDocument
<1> QED BY <1>2, <1>4, <1>5

LEMMA BuiltStays ==
  ASSUME ConfigInv, NEW c \in Callers, UNCHANGED built
  PROVE built' = [built EXCEPT ![c] = built[c]] /\ IsEngine(built[c]) /\ ~built[c].reloaded
  BY DEF ConfigInv, BuiltSoFar

\* A caller goes where nothing is asked of what it has built.
LEMMA PlainMove ==
  ASSUME ConfigInv, NEW c \in Callers, NEW l \in Places, Moves(c, l), l # "idle" => pc[c] # "idle",
         l \notin {"router", "outbounds", "set"} \cup ReloadStates, pc[c] \notin ReloadStates,
         UNCHANGED <<lock, engine, built>>
  PROVE ConfigInv'
<1>1. built' = [built EXCEPT ![c] = built[c]] /\ IsEngine(built[c]) /\ ~built[c].reloaded
  BY BuiltStays
<1>2. /\ pc' \in [Callers -> Places] /\ call' \in [Callers -> CallRec \cup {None}]
      /\ DOMAIN built' = Callers /\ built' = [x \in Callers |-> built'[x]]
      /\ \A x \in Callers : pc'[x] # "idle" => call'[x] \in CallRec
      /\ \A x \in Callers : BuiltSoFar(x)'
  BY <1>1, OthersStay
<1>3. ReloadHolds' /\ (engine' # None => IsEngine(engine')) /\ Config!InstalledIsWhole'
  BY ReloadStays
<1> QED BY <1>2, <1>3 DEF ConfigInv

-----------------------------------------------------------------------------
(* What the checks leave                                                   *)

LEMMA ValidIsChecked ==
  ASSUME Config!ConfigAssumption, NEW d \in Docs, ~Config!ValidateRefused(d, pprovs)
  PROVE /\ d.targets \subseteq Config!Tags(d)
        /\ pprovs = {} => Config!Members(d) \subseteq Config!Tags(d) \cup Builtins
<1>1. ~Config!CrossRefused(d, pprovs)
  BY DEF Config!ValidateRefused
<1>2. d.use # {} => d.members # {}
  BY DEF Config!ConfigAssumption, Config!IsDocument
<1>3. ASSUME pprovs = {}
      PROVE d.use = {} /\ d.members \subseteq Config!Tags(d) \cup Builtins
  BY <1>1, <1>2, <1>3 DEF Config!CrossRefused
<1> QED BY <1>1, <1>3 DEF Config!CrossRefused, Config!Members

LEMMA OutcomeIsFurnished ==
  ASSUME NEW d, NEW o \in Config!BuildOutcomes(d, pprovs), o.ok
  PROVE o.registry = Config!Tags(d) \cup Config!Nodes(o.table)
<1>1. ~Config!ProtocolRefused(d)
  BY DEF Config!BuildOutcomes
<1>2. o = [ok |-> TRUE, registry |-> Config!Tags(d) \cup Config!Nodes(pprovs), table |-> pprovs]
  BY <1>1 DEF Config!BuildOutcomes
<1> QED BY <1>2

-----------------------------------------------------------------------------
(* The steps of a build                                                    *)

LEMMA CallKeeps ==
  ASSUME Config!ConfigAssumption, ConfigInv, NEW c \in Callers, Config!Call(c)
  PROVE ConfigInv'
<1>1. PICK op \in Config!Ops, d \in Docs :
        /\ call' = [call EXCEPT ![c] = [op |-> op, doc |-> d]]
        /\ pc' = [pc EXCEPT ![c] = IF op = "reloadCore" THEN "parse" ELSE "ruleProviders"]
  BY DEF Config!Call, Config!Goto
<1>2. pc[c] = "idle" /\ built' = [built EXCEPT ![c] = Config!NoEngine] /\ UNCHANGED <<engine, lock>>
  BY DEF Config!Call
<1>3. IsEngine(Config!NoEngine) /\ ~Config!NoEngine.reloaded
  BY DEF IsEngine, Fields, Config!NoEngine
<1>4. /\ pc' \in [Callers -> Places] /\ call' \in [Callers -> CallRec \cup {None}]
      /\ \A x \in Callers : x # c => pc'[x] = pc[x] /\ call'[x] = call[x]
      /\ pc'[c] \in {"parse", "ruleProviders"} /\ call'[c] \in CallRec
  <2>1. [op |-> op, doc |-> d] \in CallRec
    BY DEF CallRec
  <2> HIDE DEF CallRec
  <2>2. call' \in [Callers -> CallRec \cup {None}] /\ call'[c] \in CallRec
    BY <1>1, <2>1 DEF ConfigInv
  <2>3. \A x \in Callers : x # c => call'[x] = call[x]
    BY <1>1 DEF ConfigInv
  <2>4. /\ pc' \in [Callers -> Places] /\ pc'[c] \in {"parse", "ruleProviders"}
        /\ \A x \in Callers : x # c => pc'[x] = pc[x]
    BY <1>1 DEF ConfigInv, Places
  <2> QED BY <2>2, <2>3, <2>4
<1>5. /\ DOMAIN built' = Callers /\ built' = [x \in Callers |-> built'[x]]
      /\ \A x \in Callers : built'[x] = IF x = c THEN Config!NoEngine ELSE built[x]
  BY <1>2 DEF ConfigInv
<1>6. \A x \in Callers : pc'[x] # "idle" => call'[x] \in CallRec
  BY <1>4 DEF ConfigInv
<1>7. \A x \in Callers : BuiltSoFar(x)'
  <2> TAKE x \in Callers
  <2>1. BuiltSoFar(x)
    BY DEF ConfigInv
  <2>2. CASE x = c
    BY <1>3, <1>4, <1>5, <2>2 DEF BuiltSoFar
  <2>3. CASE x # c
    BY <1>4, <1>5, <2>1, <2>3 DEF BuiltSoFar, Config!Doc
  <2> QED BY <2>2, <2>3
<1>8. ReloadHolds'
  <2>1. ReloadHolds /\ (lock # None => lock # c)
    BY <1>2 DEF ConfigInv, ReloadHolds, ReloadStates
  <2> QED BY <1>2, <1>4, <2>1 DEF ReloadHolds, ReloadStates, Config!Doc
<1>9. (engine' # None => IsEngine(engine')) /\ Config!InstalledIsWhole'
  BY <1>2 DEF ConfigInv, Config!InstalledIsWhole, Config!InstalledResolves, Config!OneDocument
<1> QED BY <1>4, <1>5, <1>6, <1>7, <1>8, <1>9 DEF ConfigInv

\* What an assignment to some fields of an engine leaves.
WithDoc(x, d, s) == [x EXCEPT !.shared = d, !.own = d, !.strict = s]
WithRules(x, d, m) == [x EXCEPT !.rules = d, !.rmgr = m]
WithOutbounds(x, r, t, m, d) ==
  [x EXCEPT !.registry = r, !.table = t, !.members = m, !.listeners = d, !.settled = TRUE]

LEMMA EngineChecked ==
  ASSUME NEW x, IsEngine(x), NEW d, NEW s
  PROVE /\ IsEngine(WithDoc(x, d, s)) /\ WithDoc(x, d, s).shared = d /\ WithDoc(x, d, s).own = d
        /\ WithDoc(x, d, s).strict = s /\ WithDoc(x, d, s).reloaded = x.reloaded
  BY DEF IsEngine, Fields, WithDoc

LEMMA EngineRouted ==
  ASSUME NEW x, IsEngine(x), NEW d, NEW m
  PROVE LET e == WithRules(x, d, m)
        IN /\ IsEngine(e) /\ e.rules = d /\ e.rmgr = m
           /\ e.shared = x.shared /\ e.own = x.own /\ e.strict = x.strict
           /\ e.reloaded = x.reloaded /\ e.settled = x.settled
  BY DEF IsEngine, Fields, WithRules

LEMMA EngineFurnished ==
  ASSUME NEW x, IsEngine(x), NEW r, NEW t, NEW m, NEW d
  PROVE LET e == WithOutbounds(x, r, t, m, d)
        IN /\ IsEngine(e) /\ e.registry = r /\ e.table = t /\ e.members = m /\ e.listeners = d
           /\ e.rules = x.rules /\ e.rmgr = x.rmgr
           /\ e.shared = x.shared /\ e.own = x.own /\ e.strict = x.strict
           /\ e.reloaded = x.reloaded
  BY DEF IsEngine, Fields, WithOutbounds

\* A step of a build that goes on: the engine in the making is e.
LEMMA BuildMove ==
  ASSUME ConfigInv, NEW c \in Callers, NEW l \in {"router", "outbounds", "set"}, Moves(c, l),
         pc[c] \notin {"idle"} \cup ReloadStates,
         NEW e, built' = [built EXCEPT ![c] = e], IsEngine(e), ~e.reloaded,
         Checked(e, Config!Doc(c)),
         l \in {"outbounds", "set"} => Routed(e, Config!Doc(c)),
         l = "set" => Furnished(e, Config!Doc(c)),
         UNCHANGED <<lock, engine>>
  PROVE ConfigInv'
<1>1. l \in Places /\ l \notin ReloadStates
  BY DEF Places, ReloadStates
<1>2. /\ pc' \in [Callers -> Places] /\ call' \in [Callers -> CallRec \cup {None}]
      /\ DOMAIN built' = Callers /\ built' = [x \in Callers |-> built'[x]]
      /\ \A x \in Callers : pc'[x] # "idle" => call'[x] \in CallRec
      /\ \A x \in Callers : BuiltSoFar(x)'
  BY <1>1, OthersStay
<1>3. ReloadHolds' /\ (engine' # None => IsEngine(engine')) /\ Config!InstalledIsWhole'
  BY <1>1, ReloadStays
<1> QED BY <1>2, <1>3 DEF ConfigInv

\* The caller is answered and keeps what it has built so far.
LEMMA GivesUp ==
  ASSUME ConfigInv, NEW c \in Callers, Config!Return(c), pc[c] \notin ReloadStates,
         UNCHANGED <<lock, engine, call, built>>
  PROVE ConfigInv'
<1>1. Moves(c, "idle")
  BY DEF Config!Return, Config!Goto, Moves
<1>2. "idle" \in Places /\ "idle" \notin {"router", "outbounds", "set"} \cup ReloadStates
  BY DEF Places, ReloadStates
<1> QED BY <1>1, <1>2, PlainMove

LEMMA ValidateKeeps ==
  ASSUME Config!ConfigAssumption, ConfigInv, NEW c \in Callers, Config!Validate(c)
  PROVE ConfigInv'
<1> DEFINE d == Config!Doc(c)
           s == pprovs = {}
           e == WithDoc(built[c], d, s)
<1>1. pc[c] = "validate" /\ UNCHANGED <<engine, lock, call>> /\ d \in Docs
  BY DEF Config!Validate, ConfigInv, CallRec, Config!Doc
<1>2. IsEngine(built[c]) /\ ~built[c].reloaded
  BY DEF ConfigInv, BuiltSoFar
<1>3. CASE Config!ValidateRefused(d, pprovs)
  BY <1>1, <1>3, GivesUp DEF Config!Validate, ReloadStates
<1>4. CASE ~Config!ValidateRefused(d, pprovs)
  <2>1. Moves(c, "router") /\ built' = [built EXCEPT ![c] = e]
    BY <1>1, <1>4 DEF Config!Validate, Config!Goto, Moves, ConfigInv, WithDoc
  <2>2. /\ d.targets \subseteq Config!Tags(d)
        /\ s => Config!Members(d) \subseteq Config!Tags(d) \cup Builtins
    BY <1>1, <1>4, ValidIsChecked
  <2> HIDE DEF s, d
  <2>3. IsEngine(e) /\ e.shared = d /\ e.own = d /\ e.strict = s /\ e.reloaded = built[c].reloaded
    BY <1>2, EngineChecked
  <2> HIDE DEF e
  <2>4. Checked(e, d) /\ ~e.reloaded
    BY <1>2, <2>2, <2>3 DEF Checked
  <2>5. Checked(e, Config!Doc(c))
    BY <2>4 DEF d
  <2>6. pc[c] \notin {"idle"} \cup ReloadStates
    BY <1>1 DEF ReloadStates
  <2> QED BY <1>1, <2>1, <2>3, <2>4, <2>5, <2>6, BuildMove
<1> QED BY <1>3, <1>4

LEMMA NewRouterKeeps ==
  ASSUME Config!ConfigAssumption, ConfigInv, NEW c \in Callers, Config!NewRouter(c)
  PROVE ConfigInv'
<1> DEFINE d == Config!Doc(c)
           e == WithRules(built[c], d, rprovs)
<1>1. pc[c] = "router" /\ UNCHANGED <<engine, lock, call>>
  BY DEF Config!NewRouter
<1>2. IsEngine(built[c]) /\ ~built[c].reloaded /\ Checked(built[c], d)
  BY <1>1 DEF ConfigInv, BuiltSoFar
<1>3. CASE Config!Return(c) /\ UNCHANGED built
  BY <1>1, <1>3, GivesUp DEF ReloadStates
<1>4. CASE /\ d.sets \subseteq rprovs
           /\ built' = [built EXCEPT ![c].rules = Config!Doc(c), ![c].rmgr = rprovs]
           /\ Config!Goto(c, "outbounds")
  <2>1. Moves(c, "outbounds") /\ built' = [built EXCEPT ![c] = e]
    BY <1>1, <1>4 DEF Config!Goto, Moves, ConfigInv, WithRules
  <2> HIDE DEF d
  <2>2. /\ IsEngine(e) /\ e.rules = d /\ e.rmgr = rprovs
        /\ e.shared = built[c].shared /\ e.own = built[c].own /\ e.strict = built[c].strict
        /\ e.reloaded = built[c].reloaded
    BY <1>2, EngineRouted
  <2> HIDE DEF e
  <2>3. Checked(e, d) /\ Routed(e, d) /\ ~e.reloaded
    BY <1>2, <1>4, <2>2 DEF Checked, Routed
  <2>4. Checked(e, Config!Doc(c)) /\ Routed(e, Config!Doc(c))
    BY <2>3 DEF d
  <2>5. pc[c] \notin {"idle"} \cup ReloadStates
    BY <1>1 DEF ReloadStates
  <2> QED BY <1>1, <2>1, <2>2, <2>3, <2>4, <2>5, BuildMove
<1> QED BY <1>3, <1>4 DEF Config!NewRouter

LEMMA NewOutboundsKeeps ==
  ASSUME Config!ConfigAssumption, ConfigInv, NEW c \in Callers, Config!NewOutbounds(c)
  PROVE ConfigInv'
<1> DEFINE d == Config!Doc(c)
<1>1. pc[c] = "outbounds" /\ UNCHANGED <<engine, lock, call>>
  BY DEF Config!NewOutbounds
<1>2. IsEngine(built[c]) /\ ~built[c].reloaded /\ Checked(built[c], d) /\ Routed(built[c], d)
  BY <1>1 DEF ConfigInv, BuiltSoFar
<1>3. PICK o \in Config!BuildOutcomes(d, pprovs) :
        IF o.ok
        THEN /\ built' = [built EXCEPT ![c].registry = o.registry, ![c].table = o.table,
                                       ![c].members = Config!Members(Config!Doc(c)),
                                       ![c].listeners = Config!Doc(c), ![c].settled = TRUE]
             /\ IF call[c].op = "test" THEN Config!Return(c) ELSE Config!Goto(c, "set")
        ELSE Config!Return(c) /\ UNCHANGED built
  BY DEF Config!NewOutbounds
<1>4. CASE ~o.ok
  BY <1>1, <1>3, <1>4, GivesUp DEF ReloadStates
<1>5. CASE o.ok
  <2> DEFINE e == WithOutbounds(built[c], o.registry, o.table, Config!Members(d), d)
  <2>1. built' = [built EXCEPT ![c] = e]
    BY <1>3, <1>5 DEF ConfigInv, WithOutbounds
  <2>2. o.registry = Config!Tags(d) \cup Config!Nodes(o.table)
    BY <1>5, OutcomeIsFurnished
  <2>3. /\ IsEngine(e) /\ e.registry = o.registry /\ e.table = o.table
        /\ e.members = Config!Members(d) /\ e.listeners = d
        /\ e.rules = built[c].rules /\ e.rmgr = built[c].rmgr
        /\ e.shared = built[c].shared /\ e.own = built[c].own /\ e.strict = built[c].strict
        /\ e.reloaded = built[c].reloaded
    BY <1>2, EngineFurnished
  <2> HIDE DEF e, d
  <2>4. Checked(e, d) /\ Routed(e, d) /\ Furnished(e, d) /\ ~e.reloaded
    BY <1>2, <2>2, <2>3 DEF Checked, Routed, Furnished
  <2>5. Checked(e, Config!Doc(c)) /\ Routed(e, Config!Doc(c)) /\ Furnished(e, Config!Doc(c))
    BY <2>4 DEF d
  <2>6. pc[c] \notin {"idle"} \cup ReloadStates /\ pc[c] \notin ReloadStates
    BY <1>1 DEF ReloadStates
  <2>7. CASE Config!Goto(c, "set")
    <3>1. Moves(c, "set")
      BY <1>1, <2>7 DEF Config!Goto, Moves
    <3> QED BY <1>1, <2>1, <2>3, <2>4, <2>5, <2>6, <3>1, BuildMove
  <2>8. CASE Config!Return(c)
    <3>1. Moves(c, "idle") /\ "idle" \in Places /\ "idle" \notin ReloadStates
      BY <1>1, <2>8 DEF Config!Return, Config!Goto, Moves, Places, ReloadStates
    <3>2. /\ pc' \in [Callers -> Places] /\ call' \in [Callers -> CallRec \cup {None}]
          /\ DOMAIN built' = Callers /\ built' = [x \in Callers |-> built'[x]]
          /\ \A x \in Callers : pc'[x] # "idle" => call'[x] \in CallRec
          /\ \A x \in Callers : BuiltSoFar(x)'
      BY <2>1, <2>3, <2>4, <3>1, OthersStay
    <3>3. ReloadHolds' /\ (engine' # None => IsEngine(engine')) /\ Config!InstalledIsWhole'
      BY <1>1, <2>6, <3>1, ReloadStays
    <3> QED BY <3>2, <3>3 DEF ConfigInv
  <2> QED BY <1>3, <1>5, <2>7, <2>8
<1> QED BY <1>4, <1>5

-----------------------------------------------------------------------------
(* The steps that touch the installed engine                               *)

\* What was built whole is installed whole.
LEMMA WholeInstalled ==
  ASSUME NEW e, NEW d, IsEngine(e), Checked(e, d), Routed(e, d), Furnished(e, d), engine' = e
  PROVE Config!InstalledIsWhole'
  BY DEF Checked, Routed, Furnished, Config!InstalledIsWhole, Config!InstalledResolves,
         Config!OneDocument

\* While no reload runs, one caller may replace the engine.
LEMMA EngineReplaced ==
  ASSUME ConfigInv, NEW c \in Callers, NEW l \in Places \ ({"router", "outbounds", "set"} \cup ReloadStates),
         Moves(c, l), pc[c] \notin {"idle"} \cup ReloadStates, lock = None, UNCHANGED <<lock, built>>,
         engine' # None => IsEngine(engine'), Config!InstalledIsWhole'
  PROVE ConfigInv'
<1>1. l \in Places /\ l \notin {"router", "outbounds", "set"} /\ l \notin ReloadStates
  OBVIOUS
<1>2. built' = [built EXCEPT ![c] = built[c]] /\ IsEngine(built[c]) /\ ~built[c].reloaded
  BY BuiltStays
<1>3. /\ pc' \in [Callers -> Places] /\ call' \in [Callers -> CallRec \cup {None}]
      /\ DOMAIN built' = Callers /\ built' = [x \in Callers |-> built'[x]]
      /\ \A x \in Callers : pc'[x] # "idle" => call'[x] \in CallRec
      /\ \A x \in Callers : BuiltSoFar(x)'
  BY <1>1, <1>2, OthersStay
<1>4. ReloadHolds'
  <2>1. \A x \in Callers : pc'[x] = IF x = c THEN l ELSE pc[x]
    BY DEF ConfigInv, Moves
  <2>2. ReloadHolds
    BY DEF ConfigInv
  <2> QED BY <1>1, <2>1, <2>2 DEF ReloadHolds
<1> QED BY <1>3, <1>4 DEF ConfigInv

LEMMA ClearKeeps ==
  ASSUME ConfigInv, NEW c \in Callers, Config!Clear(c)
  PROVE ConfigInv'
<1>1. /\ pc[c] = "clear" /\ lock = None /\ engine' = None /\ UNCHANGED <<lock, call, built>>
      /\ Moves(c, "validate")
  BY DEF Config!Clear, Config!Goto, Moves
<1>2. /\ "validate" \in Places \ ({"router", "outbounds", "set"} \cup ReloadStates)
      /\ pc[c] \notin {"idle"} \cup ReloadStates
  BY <1>1 DEF Places, ReloadStates
<1>3. Config!InstalledIsWhole'
  BY <1>1 DEF Config!InstalledIsWhole, Config!InstalledResolves, Config!OneDocument
<1> QED BY <1>1, <1>2, <1>3, EngineReplaced

LEMMA SetInstanceKeeps ==
  ASSUME ConfigInv, NEW c \in Callers, Config!SetInstance(c)
  PROVE ConfigInv'
<1>1. /\ pc[c] = "set" /\ lock = None /\ engine' = built[c] /\ UNCHANGED <<lock, call, built>>
      /\ Moves(c, "idle")
  BY DEF Config!SetInstance, Config!Return, Config!Goto, Moves
<1>2. /\ "idle" \in Places \ ({"router", "outbounds", "set"} \cup ReloadStates)
      /\ pc[c] \notin {"idle"} \cup ReloadStates
  BY <1>1 DEF Places, ReloadStates
<1>3. /\ IsEngine(built[c]) /\ Checked(built[c], Config!Doc(c)) /\ Routed(built[c], Config!Doc(c))
      /\ Furnished(built[c], Config!Doc(c))
  BY <1>1 DEF ConfigInv, BuiltSoFar
<1>4. Config!InstalledIsWhole'
  BY <1>1, <1>3, WholeInstalled
<1> QED BY <1>1, <1>2, <1>3, <1>4, EngineReplaced

\* A reload moves: it goes on or gives the lock back.  Its engine is marked
\* reloaded, and is settled only by its last step.
LEMMA ReloadMoves ==
  ASSUME Config!ConfigAssumption, ConfigInv, NEW c \in Callers, NEW l \in {"idle"} \cup ReloadStates,
         Moves(c, l), UNCHANGED built, pc[c] \in {"reload"} \cup ReloadStates,
         lock \in {c, None}, lock' = IF l = "idle" THEN None ELSE c,
         IsEngine(engine'), engine'.reloaded,
         l # "idle" => ~engine'.settled /\ engine'.shared = Config!Doc(c),
         l \in {"reloadInbounds", "reloadOutbounds"} => engine'.rules = Config!Doc(c),
         l = "reloadOutbounds" => engine'.listeners = Config!Doc(c),
         engine'.settled => /\ engine'.own = engine'.shared /\ engine'.rules = engine'.own
                            /\ engine'.listeners = engine'.own
                            /\ engine'.registry = Config!Tags(engine'.own) \cup Config!Nodes(engine'.table)
  PROVE ConfigInv'
<1>1. l \in Places /\ l \notin {"router", "outbounds", "set"} /\ pc[c] # "idle"
  BY DEF Places, ReloadStates
<1>2. built' = [built EXCEPT ![c] = built[c]] /\ IsEngine(built[c]) /\ ~built[c].reloaded
  BY BuiltStays
<1>3. /\ pc' \in [Callers -> Places] /\ call' \in [Callers -> CallRec \cup {None}]
      /\ DOMAIN built' = Callers /\ built' = [x \in Callers |-> built'[x]]
      /\ \A x \in Callers : pc'[x] # "idle" => call'[x] \in CallRec
      /\ \A x \in Callers : BuiltSoFar(x)'
  BY <1>1, <1>2, OthersStay
<1>4. ReloadHolds'
  <2>1. /\ \A x \in Callers : pc'[x] = IF x = c THEN l ELSE pc[x]
        /\ call' = call /\ c # None
    BY DEF ConfigInv, Moves, Config!ConfigAssumption
  <2>2. \A x \in Callers : x # c => pc[x] \notin ReloadStates
    BY <2>1 DEF ConfigInv, ReloadHolds, Config!ConfigAssumption
  <2>3. "idle" \notin ReloadStates
    BY DEF ReloadStates
  <2> QED BY <2>1, <2>2, <2>3 DEF ReloadHolds, Config!Doc
<1>5. Config!InstalledIsWhole'
  BY DEF Config!InstalledIsWhole, Config!InstalledResolves, Config!OneDocument
<1> QED BY <1>3, <1>4, <1>5 DEF ConfigInv

LEMMA HolderFacts ==
  ASSUME Config!ConfigAssumption, ConfigInv, NEW c \in Callers, pc[c] \in ReloadStates
  PROVE /\ lock = c /\ IsEngine(engine) /\ engine.reloaded /\ ~engine.settled
        /\ engine.shared = Config!Doc(c)
        /\ pc[c] \in {"reloadInbounds", "reloadOutbounds"} => engine.rules = Config!Doc(c)
        /\ pc[c] = "reloadOutbounds" => engine.listeners = Config!Doc(c)
  BY DEF ConfigInv, ReloadHolds, Config!ConfigAssumption

Begun(x, d) == [x EXCEPT !.shared = d, !.reloaded = TRUE, !.settled = FALSE]
WithListeners(x, d) == [x EXCEPT !.listeners = d]
WithRegistry(x, r, t) == [x EXCEPT !.registry = r, !.table = t]
Settled(x, r, t, d, m) ==
  [x EXCEPT !.registry = r, !.table = t, !.own = d, !.members = m, !.settled = TRUE]

LEMMA EngineBegun ==
  ASSUME NEW x, IsEngine(x), NEW d
  PROVE LET e == Begun(x, d)
        IN IsEngine(e) /\ e.shared = d /\ e.reloaded = TRUE /\ e.settled = FALSE
  BY DEF IsEngine, Fields, Begun

LEMMA EngineListens ==
  ASSUME NEW x, IsEngine(x), NEW d
  PROVE LET e == WithListeners(x, d)
        IN /\ IsEngine(e) /\ e.listeners = d /\ e.shared = x.shared /\ e.rules = x.rules
           /\ e.reloaded = x.reloaded /\ e.settled = x.settled
  BY DEF IsEngine, Fields, WithListeners

LEMMA EngineCleared ==
  ASSUME NEW x, IsEngine(x), NEW r, NEW t
  PROVE LET e == WithRegistry(x, r, t)
        IN IsEngine(e) /\ e.reloaded = x.reloaded /\ e.settled = x.settled
  BY DEF IsEngine, Fields, WithRegistry

LEMMA ReloadBeginKeeps ==
  ASSUME Config!ConfigAssumption, ConfigInv, NEW c \in Callers, Config!ReloadBegin(c)
  PROVE ConfigInv'
<1>1. pc[c] = "reload" /\ lock = None /\ UNCHANGED <<call, built>>
  BY DEF Config!ReloadBegin
<1>2. CASE engine = None
  BY <1>1, <1>2, GivesUp DEF Config!ReloadBegin, ReloadStates
<1>3. CASE engine # None
  <2> DEFINE d == Config!Doc(c)
             e == Begun(engine, d)
  <2>1. lock' = c /\ engine' = e /\ Moves(c, "reloadRouter")
    BY <1>1, <1>3 DEF Config!ReloadBegin, Config!Goto, Moves, Begun
  <2>2. IsEngine(engine)
    BY <1>3 DEF ConfigInv
  <2> HIDE DEF d
  <2>3. IsEngine(e) /\ e.shared = d /\ e.reloaded = TRUE /\ e.settled = FALSE
    BY <2>2, EngineBegun
  <2> HIDE DEF e
  <2>4. engine'.shared = Config!Doc(c) /\ engine'.reloaded /\ ~engine'.settled /\ IsEngine(engine')
    BY <2>1, <2>3 DEF d
  <2>5. "reloadRouter" \in ReloadStates /\ lock \in {c, None}
    BY <1>1 DEF ReloadStates
  <2> QED BY <1>1, <2>1, <2>4, <2>5, ReloadMoves
<1> QED BY <1>2, <1>3

LEMMA ReloadRouterKeeps ==
  ASSUME Config!ConfigAssumption, ConfigInv, NEW c \in Callers, Config!ReloadRouter(c)
  PROVE ConfigInv'
<1> DEFINE d == Config!Doc(c)
<1>1. pc[c] = "reloadRouter" /\ pc[c] \in ReloadStates /\ UNCHANGED <<call, built>>
  BY DEF Config!ReloadRouter, ReloadStates
<1>2. lock = c /\ IsEngine(engine) /\ engine.reloaded /\ ~engine.settled /\ engine.shared = d
  BY <1>1, HolderFacts
<1>3. CASE Config!GiveUp(c) /\ UNCHANGED engine
  <2>1. Moves(c, "idle") /\ lock' = None
    BY <1>1, <1>3 DEF Config!GiveUp, Config!Return, Config!Goto, Moves
  <2> QED BY <1>1, <1>2, <1>3, <2>1, ReloadMoves
<1>4. ASSUME NEW m, engine' = WithRules(engine, d, m),
             \/ Config!GiveUp(c)
             \/ Config!Goto(c, "reloadInbounds") /\ UNCHANGED lock
      PROVE ConfigInv'
  <2> DEFINE e == WithRules(engine, d, m)
  <2> HIDE DEF d
  <2>1. /\ IsEngine(e) /\ e.rules = d /\ e.shared = engine.shared
        /\ e.reloaded = engine.reloaded /\ e.settled = engine.settled
    <3>1. IsEngine(engine)
      BY <1>2
    <3>2. IsEngine(WithRules(engine, d, m))
      BY <3>1, EngineRouted
    <3>3. WithRules(engine, d, m).rules = d
      BY <3>1, EngineRouted
    <3>4. WithRules(engine, d, m).shared = engine.shared
      BY <3>1, EngineRouted
    <3>5. WithRules(engine, d, m).reloaded = engine.reloaded
      BY <3>1, EngineRouted
    <3>6. WithRules(engine, d, m).settled = engine.settled
      BY <3>1, EngineRouted
    <3> QED BY <3>2, <3>3, <3>4, <3>5, <3>6
  <2> HIDE DEF e
  <2>2. /\ IsEngine(engine') /\ engine'.rules = Config!Doc(c) /\ engine'.shared = Config!Doc(c)
        /\ engine'.reloaded /\ ~engine'.settled
    BY <1>2, <1>4, <2>1 DEF e, d
  <2>3. CASE Config!GiveUp(c)
    <3>1. Moves(c, "idle") /\ lock' = None
      BY <1>1, <2>3 DEF Config!GiveUp, Config!Return, Config!Goto, Moves
    <3> QED BY <1>1, <1>2, <2>2, <3>1, ReloadMoves
  <2>4. CASE Config!Goto(c, "reloadInbounds") /\ UNCHANGED lock
    <3>1. Moves(c, "reloadInbounds") /\ lock' = c /\ "reloadInbounds" \in ReloadStates
      BY <1>1, <1>2, <2>4 DEF Config!Goto, Moves, ReloadStates
    <3> QED BY <1>1, <1>2, <2>2, <3>1, ReloadMoves
  <2> QED BY <1>4, <2>3, <2>4
<1>5. \/ Config!GiveUp(c) /\ UNCHANGED engine
      \/ \E m : /\ engine' = WithRules(engine, d, m)
                /\ \/ Config!GiveUp(c)
                   \/ Config!Goto(c, "reloadInbounds") /\ UNCHANGED lock
  BY DEF Config!ReloadRouter, WithRules
<1> HIDE DEF d
<1> QED BY <1>3, <1>4, <1>5

LEMMA ReloadInboundsKeeps ==
  ASSUME Config!ConfigAssumption, ConfigInv, NEW c \in Callers, Config!ReloadInbounds(c)
  PROVE ConfigInv'
<1> DEFINE d == Config!Doc(c)
           e == WithListeners(engine, d)
<1>1. /\ pc[c] = "reloadInbounds" /\ pc[c] \in ReloadStates /\ UNCHANGED <<call, built>>
      /\ engine' = e
      /\ Config!GiveUp(c) \/ (Config!Goto(c, "reloadOutbounds") /\ UNCHANGED lock)
  BY DEF Config!ReloadInbounds, ReloadStates, WithListeners
<1>2. /\ lock = c /\ IsEngine(engine) /\ engine.reloaded /\ ~engine.settled /\ engine.shared = d
      /\ engine.rules = d
  BY <1>1, HolderFacts
<1>3. /\ IsEngine(e) /\ e.listeners = d /\ e.shared = engine.shared /\ e.rules = engine.rules
      /\ e.reloaded = engine.reloaded /\ e.settled = engine.settled
  BY <1>2, EngineListens
<1> HIDE DEF e
<1>4. /\ IsEngine(engine') /\ engine'.rules = Config!Doc(c) /\ engine'.shared = Config!Doc(c)
      /\ engine'.listeners = Config!Doc(c) /\ engine'.reloaded /\ ~engine'.settled
  BY <1>1, <1>2, <1>3
<1>5. CASE Config!GiveUp(c)
  <2>1. Moves(c, "idle") /\ lock' = None
    BY <1>1, <1>5 DEF Config!GiveUp, Config!Return, Config!Goto, Moves
  <2> QED BY <1>1, <1>2, <1>4, <2>1, ReloadMoves
<1>6. CASE Config!Goto(c, "reloadOutbounds") /\ UNCHANGED lock
  <2>1. Moves(c, "reloadOutbounds") /\ lock' = c /\ "reloadOutbounds" \in ReloadStates
    BY <1>1, <1>2, <1>6 DEF Config!Goto, Moves, ReloadStates
  <2> QED BY <1>1, <1>2, <1>4, <2>1, ReloadMoves
<1> QED BY <1>1, <1>5, <1>6

LEMMA ReloadOutboundsKeeps ==
  ASSUME Config!ConfigAssumption, ConfigInv, NEW c \in Callers, Config!ReloadOutbounds(c)
  PROVE ConfigInv'
<1> DEFINE d == Config!Doc(c)
<1>1. /\ pc[c] = "reloadOutbounds" /\ pc[c] \in ReloadStates /\ UNCHANGED <<call, built>>
      /\ Moves(c, "idle") /\ lock' = None
  BY DEF Config!ReloadOutbounds, ReloadStates, Config!GiveUp, Config!Return, Config!Goto, Moves
<1>2. /\ lock = c /\ IsEngine(engine) /\ engine.reloaded /\ ~engine.settled /\ engine.shared = d
      /\ engine.rules = d /\ engine.listeners = d
  BY <1>1, HolderFacts
<1>3. PICK o \in Config!BuildOutcomes(d, pprovs) :
        engine' = IF o.ok THEN Settled(engine, o.registry, o.table, d, Config!Members(d))
                  ELSE WithRegistry(engine, o.registry, o.table)
  BY DEF Config!ReloadOutbounds, Settled, WithRegistry
<1>4. CASE ~o.ok
  <2> DEFINE e == WithRegistry(engine, o.registry, o.table)
  <2>1. IsEngine(e) /\ e.reloaded = engine.reloaded /\ e.settled = engine.settled
    BY <1>2, EngineCleared
  <2> HIDE DEF e
  <2>2. IsEngine(engine') /\ engine'.reloaded /\ ~engine'.settled
    BY <1>2, <1>3, <1>4, <2>1 DEF e
  <2> QED BY <1>1, <1>2, <2>2, ReloadMoves
<1>5. CASE o.ok
  <2> DEFINE m == Config!Members(d)
             r == o.registry
             t == o.table
             e == Settled(engine, r, t, d, m)
  <2>1. r = Config!Tags(d) \cup Config!Nodes(t)
    BY <1>5, OutcomeIsFurnished
  <2>2. engine' = e
    BY <1>3, <1>5
  <2> HIDE DEF d, m, r, t
  <2>3. /\ IsEngine(e) /\ e.registry = r /\ e.table = t /\ e.own = d
        /\ e.shared = engine.shared /\ e.rules = engine.rules /\ e.listeners = engine.listeners
        /\ e.reloaded = engine.reloaded
    <3>1. IsEngine(engine)
      BY <1>2
    <3>2. IsEngine(Settled(engine, r, t, d, m))
      BY <3>1 DEF IsEngine, Fields, Settled
    <3>3. Settled(engine, r, t, d, m).registry = r
      BY <3>1 DEF IsEngine, Fields, Settled
    <3>4. Settled(engine, r, t, d, m).table = t
      BY <3>1 DEF IsEngine, Fields, Settled
    <3>5. Settled(engine, r, t, d, m).own = d
      BY <3>1 DEF IsEngine, Fields, Settled
    <3>6. Settled(engine, r, t, d, m).shared = engine.shared
      BY <3>1 DEF IsEngine, Fields, Settled
    <3>7. Settled(engine, r, t, d, m).rules = engine.rules
      BY <3>1 DEF IsEngine, Fields, Settled
    <3>8. Settled(engine, r, t, d, m).listeners = engine.listeners
      BY <3>1 DEF IsEngine, Fields, Settled
    <3>9. Settled(engine, r, t, d, m).reloaded = engine.reloaded
      BY <3>1 DEF IsEngine, Fields, Settled
    <3> QED BY <3>2, <3>3, <3>4, <3>5, <3>6, <3>7, <3>8, <3>9
  <2> HIDE DEF e
  <2>4. /\ IsEngine(engine') /\ engine'.reloaded
        /\ engine'.own = engine'.shared /\ engine'.rules = engine'.own
        /\ engine'.listeners = engine'.own
        /\ engine'.registry = Config!Tags(engine'.own) \cup Config!Nodes(engine'.table)
    BY <1>2, <2>1, <2>2, <2>3
  <2> QED BY <1>1, <1>2, <2>4, ReloadMoves
<1> QED BY <1>4, <1>5

LEMMA ConfigNext ==
  ASSUME Config!ConfigAssumption, ConfigInv, [Config!Next]_(Config!vars)
  PROVE ConfigInv'
<1>1. CASE UNCHANGED Config!vars
  BY <1>1 DEF Config!vars, ConfigInv, BuiltSoFar, ReloadHolds, Config!Doc, Config!InstalledIsWhole,
     Config!InstalledResolves, Config!OneDocument
<1>2. ASSUME NEW c \in Callers,
             Config!ConfigureRuleProviders(c) \/ Config!ConfigureProxyProviders(c) \/ Config!Parse(c)
      PROVE ConfigInv'
  <2>1. /\ pc[c] \in {"ruleProviders", "proxyProviders", "parse"}
        /\ UNCHANGED <<engine, lock, call, built>>
    BY <1>2 DEF Config!ConfigureRuleProviders, Config!ConfigureProxyProviders, Config!Parse
  <2>2. PICK l \in {"idle", "proxyProviders", "parse", "clear", "validate", "reload"} :
          pc' = [pc EXCEPT ![c] = l]
    BY <1>2 DEF Config!ConfigureRuleProviders, Config!ConfigureProxyProviders, Config!Parse,
       Config!Return, Config!Goto
  <2>3. /\ l \in Places /\ l \notin {"router", "outbounds", "set"} \cup ReloadStates
        /\ pc[c] \notin ReloadStates /\ pc[c] # "idle" /\ Moves(c, l)
    BY <2>1, <2>2 DEF Places, ReloadStates, Moves
  <2> QED BY <2>1, <2>3, PlainMove
<1> QED
  BY <1>1, <1>2, CallKeeps, ClearKeeps, ValidateKeeps, NewRouterKeeps, NewOutboundsKeeps,
     SetInstanceKeeps, ReloadBeginKeeps, ReloadRouterKeeps, ReloadInboundsKeeps, ReloadOutboundsKeeps
  DEF Config!Next

LEMMA ConfigInit ==
  ASSUME Config!ConfigAssumption, Config!Init
  PROVE ConfigInv
<1>1. IsEngine(Config!NoEngine) /\ ~Config!NoEngine.reloaded
  BY DEF IsEngine, Fields, Config!NoEngine
<1>2. /\ pc = [c \in Callers |-> "idle"] /\ call = [c \in Callers |-> None]
      /\ built = [c \in Callers |-> Config!NoEngine] /\ lock = None /\ engine = None
  BY DEF Config!Init
<1>3. \A c \in Callers : BuiltSoFar(c)
  BY <1>1, <1>2 DEF BuiltSoFar
<1>4. ReloadHolds
  BY <1>2 DEF ReloadHolds, ReloadStates
<1>5. pc \in [Callers -> Places] /\ call \in [Callers -> CallRec \cup {None}]
  BY <1>2 DEF Places
<1>6. DOMAIN built = Callers /\ built = [c \in Callers |-> built[c]]
  BY <1>2
<1>7. Config!InstalledIsWhole
  BY <1>2 DEF Config!InstalledIsWhole, Config!InstalledResolves, Config!OneDocument
<1> QED BY <1>2, <1>3, <1>4, <1>5, <1>6, <1>7 DEF ConfigInv

\* Whatever calls overlap with its making, an installed engine has what its
\* rules send to, and an engine whose last reload succeeded is one document's
\* (src/api.rs, engine/mod.rs, engine/config/validator.rs, engine/outbound.rs):
\* for every set of documents, providers and callers.
THEOREM InstalledAlwaysWhole ==
  ASSUME Config!ConfigAssumption
  PROVE Config!Spec => []Config!InstalledIsWhole
<1>1. Config!Init => ConfigInv
  BY ConfigInit
<1>2. ConfigInv /\ [Config!Next]_(Config!vars) => ConfigInv'
  BY ConfigNext
<1>3. ConfigInv => Config!InstalledIsWhole
  BY DEF ConfigInv
<1> QED BY <1>1, <1>2, <1>3, PTL DEF Config!Spec

(***************************************************************************)
(* FakeIpPool                                                              *)
(***************************************************************************)

Pool == INSTANCE FakeIpPool

Slot == 1 .. Slots
Entry == [ip : 0 .. Slots, expires : Nat]

PoolType ==
  /\ now \in Nat /\ next \in 0 .. Slots - 1
  /\ fwd \in [Names -> Entry] /\ \A n \in Names : Pool!HasEntry(n) => fwd[n].ip \in Slot
  /\ back \in [Slot -> Names \cup {Pool!None}]
  /\ packet = [pc |-> packet.pc, name |-> packet.name, ip |-> packet.ip]
  /\ packet.pc \in {"evict", "insert_fwd", "insert_back", "answer"} =>
       packet.name \in Names /\ packet.ip \in Slot
  /\ packet.pc = "dial" => packet.ip \in Slot
  /\ reaper = [todo |-> reaper.todo, half |-> reaper.half]
  /\ reaper.half \in 0 .. Slots
  /\ \A p \in reaper.todo : p[1] \in Names /\ p[2] \in Slot
  /\ handed \in [Slot -> Names \cup {Pool!None}]
  /\ raced \in BOOLEAN

\* The two maps agree on every entry, but on the one under way.
EntriesAreMapped ==
  \A n \in Names : Pool!HasEntry(n) =>
    \/ back[fwd[n].ip] = n
    \/ packet.pc = "insert_back" /\ n = packet.name /\ fwd[n].ip = packet.ip

\* An address that is being given to a name is no other name's.
SlotIsFree ==
  packet.pc \in {"insert_fwd", "insert_back"} =>
    \A n \in Names : Pool!HasEntry(n) /\ fwd[n].ip = packet.ip =>
      packet.pc = "insert_back" /\ n = packet.name

\* The reverse map has no other name than the one the address was last
\* answered for, or is answered for now.
BackIsHanded ==
  \A a \in Slot : back[a] # Pool!None =>
    handed[a] = back[a] \/ (packet.pc = "answer" /\ packet.ip = a)
AnswerIsBack == packet.pc = "answer" => back[packet.ip] \in {packet.name, Pool!None}
DialIsHanded == packet.pc = "dial" => packet.name \in {handed[packet.ip], Pool!None}

PoolInv == ~raced => EntriesAreMapped /\ SlotIsFree /\ BackIsHanded /\ AnswerIsBack /\ DialIsHanded
LEMMA NoEntryIsEntry == Pool!PoolAssumption => Pool!NoEntry \in Entry
  BY DEF Pool!NoEntry, Entry, Pool!PoolAssumption

LEMMA TickType == ASSUME PoolType, Pool!PoolAssumption, Pool!Tick PROVE PoolType'
  BY DEF PoolType, Slot, Entry, Pool!PoolAssumption, Pool!Tick, Pool!HasEntry, Pool!Expired, Pool!NoEntry, Pool!Idle, Pool!Addresses, Pool!None
LEMMA TickInv == ASSUME PoolType, PoolInv, Pool!PoolAssumption, Pool!Tick PROVE PoolInv'
<1>1. PoolType' BY TickType
<1> SUFFICES ASSUME ~raced' PROVE PoolInv' BY DEF PoolInv
<1>2. EntriesAreMapped' BY <1>1 DEF PoolInv, PoolType, EntriesAreMapped, SlotIsFree, Slot, Entry, Pool!PoolAssumption, Pool!Tick, Pool!HasEntry, Pool!Expired, Pool!NoEntry, Pool!Idle, Pool!Addresses, Pool!None
<1>3. SlotIsFree' BY <1>1 DEF PoolInv, PoolType, EntriesAreMapped, SlotIsFree, Slot, Entry, Pool!PoolAssumption, Pool!Tick, Pool!HasEntry, Pool!Expired, Pool!NoEntry, Pool!Idle, Pool!Addresses, Pool!None
<1>4. BackIsHanded' /\ AnswerIsBack' /\ DialIsHanded'
  BY <1>1 DEF PoolInv, PoolType, EntriesAreMapped, BackIsHanded, AnswerIsBack, DialIsHanded, Slot, Entry, Pool!PoolAssumption, Pool!Tick, Pool!HasEntry, Pool!Expired, Pool!NoEntry, Pool!Idle, Pool!Addresses, Pool!None
<1> QED BY <1>2, <1>3, <1>4 DEF PoolInv

\* A query that the pool does not answer leaves the packet thread with nothing
\* of the pool in hand.
LEMMA VerdictOfOthers ==
  ASSUME NEW n, NEW e, NEW y \in Pool!Engines \ {"absent"}, Pool!Verdict(n, e, y) # "fake"
  PROVE Pool!Verdict(n, e, y) \in {"addresses", "servfail", "nxdomain"}
  BY DEF Pool!Verdict, Pool!ResolveReal, Pool!Engines

LEMMA AnswerRealType == ASSUME NEW n \in Names, PoolType, Pool!PoolAssumption, Pool!AnswerReal(n) PROVE PoolType'
<1>1. PICK e \in Pool!Engines, y \in Pool!Engines \ {"absent"} :
        /\ Pool!Verdict(n, e, y) # "fake"
        /\ packet' = [pc |-> Pool!Verdict(n, e, y), name |-> n, ip |-> 0]
  BY DEF Pool!AnswerReal
<1>2. packet'.pc \in {"addresses", "servfail", "nxdomain"} BY <1>1, VerdictOfOthers
<1>3. packet' = [pc |-> packet'.pc, name |-> packet'.name, ip |-> packet'.ip] BY <1>1
<1> QED BY <1>2, <1>3 DEF PoolType, Pool!AnswerReal, Pool!HasEntry
LEMMA AnswerRealInv == ASSUME NEW n \in Names, PoolType, PoolInv, Pool!PoolAssumption, Pool!AnswerReal(n) PROVE PoolInv'
<1>1. PoolType' BY AnswerRealType
<1> SUFFICES ASSUME ~raced' PROVE PoolInv' BY DEF PoolInv
<1>2. EntriesAreMapped' BY <1>1 DEF PoolInv, PoolType, EntriesAreMapped, SlotIsFree, Slot, Entry, Pool!PoolAssumption, Pool!AnswerReal, Pool!HasEntry, Pool!Expired, Pool!NoEntry, Pool!Idle, Pool!Addresses, Pool!None
<1>3. SlotIsFree' BY <1>1 DEF PoolInv, PoolType, EntriesAreMapped, SlotIsFree, Slot, Entry, Pool!PoolAssumption, Pool!AnswerReal, Pool!HasEntry, Pool!Expired, Pool!NoEntry, Pool!Idle, Pool!Addresses, Pool!None
<1>4. BackIsHanded' /\ AnswerIsBack' /\ DialIsHanded'
  BY <1>1 DEF PoolInv, PoolType, EntriesAreMapped, BackIsHanded, AnswerIsBack, DialIsHanded, Slot, Entry, Pool!PoolAssumption, Pool!AnswerReal, Pool!HasEntry, Pool!Expired, Pool!NoEntry, Pool!Idle, Pool!Addresses, Pool!None
<1> QED BY <1>2, <1>3, <1>4 DEF PoolInv

LEMMA AllocateHitType == ASSUME NEW n \in Names, PoolType, Pool!PoolAssumption, Pool!AllocateHit(n) PROVE PoolType'
  BY DEF PoolType, Slot, Entry, Pool!PoolAssumption, Pool!AllocateHit, Pool!HasEntry, Pool!Expired, Pool!NoEntry, Pool!Idle, Pool!Addresses, Pool!None
LEMMA AllocateHitInv == ASSUME NEW n \in Names, PoolType, PoolInv, Pool!PoolAssumption, Pool!AllocateHit(n) PROVE PoolInv'
<1>1. PoolType' BY AllocateHitType
<1> SUFFICES ASSUME ~raced' PROVE PoolInv' BY DEF PoolInv
<1>2. EntriesAreMapped' BY <1>1 DEF PoolInv, PoolType, EntriesAreMapped, SlotIsFree, Slot, Entry, Pool!PoolAssumption, Pool!AllocateHit, Pool!HasEntry, Pool!Expired, Pool!NoEntry, Pool!Idle, Pool!Addresses, Pool!None
<1>3. SlotIsFree' BY <1>1 DEF PoolInv, PoolType, EntriesAreMapped, SlotIsFree, Slot, Entry, Pool!PoolAssumption, Pool!AllocateHit, Pool!HasEntry, Pool!Expired, Pool!NoEntry, Pool!Idle, Pool!Addresses, Pool!None
<1>4. BackIsHanded' /\ AnswerIsBack' /\ DialIsHanded'
  BY <1>1 DEF PoolInv, PoolType, EntriesAreMapped, BackIsHanded, AnswerIsBack, DialIsHanded, Slot, Entry, Pool!PoolAssumption, Pool!AllocateHit, Pool!HasEntry, Pool!Expired, Pool!NoEntry, Pool!Idle, Pool!Addresses, Pool!None
<1> QED BY <1>2, <1>3, <1>4 DEF PoolInv

LEMMA EvictType == ASSUME PoolType, Pool!PoolAssumption, Pool!Evict PROVE PoolType'
<1>1. packet.ip \in Slot /\ packet.name \in Names BY DEF PoolType, Pool!Evict
<1>2. packet' = [pc |-> "insert_fwd", name |-> packet.name, ip |-> packet.ip]
  BY DEF PoolType, Pool!Evict
<1>3. back' \in [Slot -> Names \cup {Pool!None}] BY <1>1 DEF PoolType, Pool!Evict
<1>4. /\ fwd' \in [Names -> Entry]
      /\ \A n \in Names : fwd'[n] = fwd[n] \/ fwd'[n] = Pool!NoEntry
  BY <1>1, NoEntryIsEntry DEF PoolType, Pool!Evict
<1>5. \A n \in Names : Pool!HasEntry(n)' => fwd'[n].ip \in Slot BY <1>4 DEF PoolType, Pool!HasEntry
<1> QED BY <1>1, <1>2, <1>3, <1>4, <1>5 DEF PoolType, Pool!Evict
LEMMA EvictInv == ASSUME PoolType, PoolInv, Pool!PoolAssumption, Pool!Evict PROVE PoolInv'
<1>1. PoolType' BY EvictType
<1> SUFFICES ASSUME ~raced' PROVE PoolInv' BY DEF PoolInv
<1>2. EntriesAreMapped' BY <1>1 DEF PoolInv, PoolType, EntriesAreMapped, SlotIsFree, Slot, Entry, Pool!PoolAssumption, Pool!Evict, Pool!HasEntry, Pool!Expired, Pool!NoEntry, Pool!Idle, Pool!Addresses, Pool!None
<1>3. SlotIsFree' BY <1>1 DEF PoolInv, PoolType, EntriesAreMapped, SlotIsFree, Slot, Entry, Pool!PoolAssumption, Pool!Evict, Pool!HasEntry, Pool!Expired, Pool!NoEntry, Pool!Idle, Pool!Addresses, Pool!None
<1>4. BackIsHanded' /\ AnswerIsBack' /\ DialIsHanded'
  BY <1>1 DEF PoolInv, PoolType, EntriesAreMapped, BackIsHanded, AnswerIsBack, DialIsHanded, Slot, Entry, Pool!PoolAssumption, Pool!Evict, Pool!HasEntry, Pool!Expired, Pool!NoEntry, Pool!Idle, Pool!Addresses, Pool!None
<1> QED BY <1>2, <1>3, <1>4 DEF PoolInv

LEMMA InsertForwardType ==
  ASSUME PoolType, Pool!PoolAssumption, Pool!InsertForward PROVE PoolType'
<1> DEFINE new == [ip |-> packet.ip, expires |-> now + Ttl]
<1>1. packet.ip \in Slot /\ packet.name \in Names BY DEF PoolType, Pool!InsertForward
<1>2. packet' = [pc |-> "insert_back", name |-> packet.name, ip |-> packet.ip]
  BY DEF PoolType, Pool!InsertForward
<1>3. new \in Entry /\ new.ip \in Slot BY <1>1 DEF PoolType, Entry, Slot, Pool!PoolAssumption
<1>4. fwd' = [fwd EXCEPT ![packet.name] = new] BY DEF Pool!InsertForward
<1>5. fwd' \in [Names -> Entry] BY <1>3, <1>4 DEF PoolType
<1>6. \A n \in Names : Pool!HasEntry(n)' => fwd'[n].ip \in Slot
  BY <1>1, <1>3, <1>4 DEF PoolType, Pool!HasEntry
<1> QED BY <1>1, <1>2, <1>5, <1>6 DEF PoolType, Pool!InsertForward
LEMMA InsertForwardInv == ASSUME PoolType, PoolInv, Pool!PoolAssumption, Pool!InsertForward PROVE PoolInv'
<1>1. PoolType' BY InsertForwardType
<1> SUFFICES ASSUME ~raced' PROVE PoolInv' BY DEF PoolInv
<1>2. EntriesAreMapped' BY <1>1 DEF PoolInv, PoolType, EntriesAreMapped, SlotIsFree, Slot, Entry, Pool!PoolAssumption, Pool!InsertForward, Pool!HasEntry, Pool!Expired, Pool!NoEntry, Pool!Idle, Pool!Addresses, Pool!None
<1>3. SlotIsFree' BY <1>1 DEF PoolInv, PoolType, EntriesAreMapped, SlotIsFree, Slot, Entry, Pool!PoolAssumption, Pool!InsertForward, Pool!HasEntry, Pool!Expired, Pool!NoEntry, Pool!Idle, Pool!Addresses, Pool!None
<1>4. BackIsHanded' /\ AnswerIsBack' /\ DialIsHanded'
  BY <1>1 DEF PoolInv, PoolType, EntriesAreMapped, BackIsHanded, AnswerIsBack, DialIsHanded, Slot, Entry, Pool!PoolAssumption, Pool!InsertForward, Pool!HasEntry, Pool!Expired, Pool!NoEntry, Pool!Idle, Pool!Addresses, Pool!None
<1> QED BY <1>2, <1>3, <1>4 DEF PoolInv

LEMMA InsertBackType == ASSUME PoolType, Pool!PoolAssumption, Pool!InsertBack PROVE PoolType'
  BY DEF PoolType, Slot, Entry, Pool!PoolAssumption, Pool!InsertBack, Pool!HasEntry, Pool!Expired, Pool!NoEntry, Pool!Idle, Pool!Addresses, Pool!None
LEMMA InsertBackInv == ASSUME PoolType, PoolInv, Pool!PoolAssumption, Pool!InsertBack PROVE PoolInv'
<1>1. PoolType' BY InsertBackType
<1> SUFFICES ASSUME ~raced' PROVE PoolInv' BY DEF PoolInv
<1>2. EntriesAreMapped' BY <1>1 DEF PoolInv, PoolType, EntriesAreMapped, SlotIsFree, Slot, Entry, Pool!PoolAssumption, Pool!InsertBack, Pool!HasEntry, Pool!Expired, Pool!NoEntry, Pool!Idle, Pool!Addresses, Pool!None
<1>3. SlotIsFree' BY <1>1 DEF PoolInv, PoolType, EntriesAreMapped, SlotIsFree, Slot, Entry, Pool!PoolAssumption, Pool!InsertBack, Pool!HasEntry, Pool!Expired, Pool!NoEntry, Pool!Idle, Pool!Addresses, Pool!None
<1>4. BackIsHanded' /\ AnswerIsBack' /\ DialIsHanded'
  BY <1>1 DEF PoolInv, PoolType, EntriesAreMapped, BackIsHanded, AnswerIsBack, DialIsHanded, Slot, Entry, Pool!PoolAssumption, Pool!InsertBack, Pool!HasEntry, Pool!Expired, Pool!NoEntry, Pool!Idle, Pool!Addresses, Pool!None
<1> QED BY <1>2, <1>3, <1>4 DEF PoolInv

LEMMA AnswerType == ASSUME PoolType, Pool!PoolAssumption, Pool!Answer PROVE PoolType'
  BY DEF PoolType, Slot, Entry, Pool!PoolAssumption, Pool!Answer, Pool!HasEntry, Pool!Expired, Pool!NoEntry, Pool!Idle, Pool!Addresses, Pool!None
LEMMA AnswerInv == ASSUME PoolType, PoolInv, Pool!PoolAssumption, Pool!Answer PROVE PoolInv'
<1>1. PoolType' BY AnswerType
<1> SUFFICES ASSUME ~raced' PROVE PoolInv' BY DEF PoolInv
<1>2. EntriesAreMapped' BY <1>1 DEF PoolInv, PoolType, EntriesAreMapped, SlotIsFree, Slot, Entry, Pool!PoolAssumption, Pool!Answer, Pool!HasEntry, Pool!Expired, Pool!NoEntry, Pool!Idle, Pool!Addresses, Pool!None
<1>3. SlotIsFree' BY <1>1 DEF PoolInv, PoolType, EntriesAreMapped, SlotIsFree, Slot, Entry, Pool!PoolAssumption, Pool!Answer, Pool!HasEntry, Pool!Expired, Pool!NoEntry, Pool!Idle, Pool!Addresses, Pool!None
<1>4. BackIsHanded' /\ AnswerIsBack' /\ DialIsHanded'
  BY <1>1 DEF PoolInv, PoolType, EntriesAreMapped, BackIsHanded, AnswerIsBack, DialIsHanded, Slot, Entry, Pool!PoolAssumption, Pool!Answer, Pool!HasEntry, Pool!Expired, Pool!NoEntry, Pool!Idle, Pool!Addresses, Pool!None
<1> QED BY <1>2, <1>3, <1>4 DEF PoolInv

LEMMA DialType == ASSUME NEW a \in Slot, PoolType, Pool!PoolAssumption, Pool!Dial(a) PROVE PoolType'
  BY DEF PoolType, Slot, Entry, Pool!PoolAssumption, Pool!Dial, Pool!HasEntry, Pool!Expired, Pool!NoEntry, Pool!Idle, Pool!Addresses, Pool!None
LEMMA DialInv == ASSUME NEW a \in Slot, PoolType, PoolInv, Pool!PoolAssumption, Pool!Dial(a) PROVE PoolInv'
<1>1. PoolType' BY DialType
<1> SUFFICES ASSUME ~raced' PROVE PoolInv' BY DEF PoolInv
<1>2. EntriesAreMapped' BY <1>1 DEF PoolInv, PoolType, EntriesAreMapped, SlotIsFree, Slot, Entry, Pool!PoolAssumption, Pool!Dial, Pool!HasEntry, Pool!Expired, Pool!NoEntry, Pool!Idle, Pool!Addresses, Pool!None
<1>3. SlotIsFree' BY <1>1 DEF PoolInv, PoolType, EntriesAreMapped, SlotIsFree, Slot, Entry, Pool!PoolAssumption, Pool!Dial, Pool!HasEntry, Pool!Expired, Pool!NoEntry, Pool!Idle, Pool!Addresses, Pool!None
<1>4. BackIsHanded' /\ AnswerIsBack' /\ DialIsHanded'
  BY <1>1 DEF PoolInv, PoolType, EntriesAreMapped, BackIsHanded, AnswerIsBack, DialIsHanded, Slot, Entry, Pool!PoolAssumption, Pool!Dial, Pool!HasEntry, Pool!Expired, Pool!NoEntry, Pool!Idle, Pool!Addresses, Pool!None
<1> QED BY <1>2, <1>3, <1>4 DEF PoolInv

LEMMA CollectType == ASSUME PoolType, Pool!PoolAssumption, Pool!Collect PROVE PoolType'
  BY DEF PoolType, Slot, Entry, Pool!PoolAssumption, Pool!Collect, Pool!HasEntry, Pool!Expired, Pool!NoEntry, Pool!Idle, Pool!Addresses, Pool!None
LEMMA CollectInv == ASSUME PoolType, PoolInv, Pool!PoolAssumption, Pool!Collect PROVE PoolInv'
<1>1. PoolType' BY CollectType
<1> SUFFICES ASSUME ~raced' PROVE PoolInv' BY DEF PoolInv
<1>2. EntriesAreMapped' BY <1>1 DEF PoolInv, PoolType, EntriesAreMapped, SlotIsFree, Slot, Entry, Pool!PoolAssumption, Pool!Collect, Pool!HasEntry, Pool!Expired, Pool!NoEntry, Pool!Idle, Pool!Addresses, Pool!None
<1>3. SlotIsFree' BY <1>1 DEF PoolInv, PoolType, EntriesAreMapped, SlotIsFree, Slot, Entry, Pool!PoolAssumption, Pool!Collect, Pool!HasEntry, Pool!Expired, Pool!NoEntry, Pool!Idle, Pool!Addresses, Pool!None
<1>4. BackIsHanded' /\ AnswerIsBack' /\ DialIsHanded'
  BY <1>1 DEF PoolInv, PoolType, EntriesAreMapped, BackIsHanded, AnswerIsBack, DialIsHanded, Slot, Entry, Pool!PoolAssumption, Pool!Collect, Pool!HasEntry, Pool!Expired, Pool!NoEntry, Pool!Idle, Pool!Addresses, Pool!None
<1> QED BY <1>2, <1>3, <1>4 DEF PoolInv

LEMMA ReapForwardType == ASSUME PoolType, Pool!PoolAssumption, Pool!ReapForward PROVE PoolType'
  BY DEF PoolType, Slot, Entry, Pool!PoolAssumption, Pool!ReapForward, Pool!HasEntry, Pool!Expired, Pool!NoEntry, Pool!Idle, Pool!Addresses, Pool!None
LEMMA ReapForwardInv == ASSUME PoolType, PoolInv, Pool!PoolAssumption, Pool!ReapForward PROVE PoolInv'
<1>1. PoolType' BY ReapForwardType
<1> SUFFICES ASSUME ~raced' PROVE PoolInv' BY DEF PoolInv
<1>2. EntriesAreMapped' BY <1>1 DEF PoolInv, PoolType, EntriesAreMapped, SlotIsFree, Slot, Entry, Pool!PoolAssumption, Pool!ReapForward, Pool!HasEntry, Pool!Expired, Pool!NoEntry, Pool!Idle, Pool!Addresses, Pool!None
<1>3. SlotIsFree' BY <1>1 DEF PoolInv, PoolType, EntriesAreMapped, SlotIsFree, Slot, Entry, Pool!PoolAssumption, Pool!ReapForward, Pool!HasEntry, Pool!Expired, Pool!NoEntry, Pool!Idle, Pool!Addresses, Pool!None
<1>4. BackIsHanded' /\ AnswerIsBack' /\ DialIsHanded'
  BY <1>1 DEF PoolInv, PoolType, EntriesAreMapped, BackIsHanded, AnswerIsBack, DialIsHanded, Slot, Entry, Pool!PoolAssumption, Pool!ReapForward, Pool!HasEntry, Pool!Expired, Pool!NoEntry, Pool!Idle, Pool!Addresses, Pool!None
<1> QED BY <1>2, <1>3, <1>4 DEF PoolInv

LEMMA ReapBackType == ASSUME PoolType, Pool!PoolAssumption, Pool!ReapBack PROVE PoolType'
  BY DEF PoolType, Slot, Entry, Pool!PoolAssumption, Pool!ReapBack, Pool!HasEntry, Pool!Expired, Pool!NoEntry, Pool!Idle, Pool!Addresses, Pool!None
LEMMA ReapBackInv == ASSUME PoolType, PoolInv, Pool!PoolAssumption, Pool!ReapBack PROVE PoolInv'
<1>1. PoolType' BY ReapBackType
<1> SUFFICES ASSUME ~raced' PROVE PoolInv' BY DEF PoolInv
<1>2. EntriesAreMapped' BY <1>1 DEF PoolInv, PoolType, EntriesAreMapped, SlotIsFree, Slot, Entry, Pool!PoolAssumption, Pool!ReapBack, Pool!HasEntry, Pool!Expired, Pool!NoEntry, Pool!Idle, Pool!Addresses, Pool!None
<1>3. SlotIsFree' BY <1>1 DEF PoolInv, PoolType, EntriesAreMapped, SlotIsFree, Slot, Entry, Pool!PoolAssumption, Pool!ReapBack, Pool!HasEntry, Pool!Expired, Pool!NoEntry, Pool!Idle, Pool!Addresses, Pool!None
<1>4. BackIsHanded' /\ AnswerIsBack' /\ DialIsHanded'
  BY <1>1 DEF PoolInv, PoolType, EntriesAreMapped, BackIsHanded, AnswerIsBack, DialIsHanded, Slot, Entry, Pool!PoolAssumption, Pool!ReapBack, Pool!HasEntry, Pool!Expired, Pool!NoEntry, Pool!Idle, Pool!Addresses, Pool!None
<1> QED BY <1>2, <1>3, <1>4 DEF PoolInv

LEMMA ClearForwardType == ASSUME PoolType, Pool!PoolAssumption, Pool!ClearForward PROVE PoolType'
  BY DEF PoolType, Slot, Entry, Pool!PoolAssumption, Pool!ClearForward, Pool!HasEntry, Pool!Expired, Pool!NoEntry, Pool!Idle, Pool!Addresses, Pool!None
LEMMA ClearForwardInv == ASSUME PoolType, PoolInv, Pool!PoolAssumption, Pool!ClearForward PROVE PoolInv'
<1>1. PoolType' BY ClearForwardType
<1> SUFFICES ASSUME ~raced' PROVE PoolInv' BY DEF PoolInv
<1>2. EntriesAreMapped' BY <1>1 DEF PoolInv, PoolType, EntriesAreMapped, SlotIsFree, Slot, Entry, Pool!PoolAssumption, Pool!ClearForward, Pool!HasEntry, Pool!Expired, Pool!NoEntry, Pool!Idle, Pool!Addresses, Pool!None
<1>3. SlotIsFree' BY <1>1 DEF PoolInv, PoolType, EntriesAreMapped, SlotIsFree, Slot, Entry, Pool!PoolAssumption, Pool!ClearForward, Pool!HasEntry, Pool!Expired, Pool!NoEntry, Pool!Idle, Pool!Addresses, Pool!None
<1>4. BackIsHanded' /\ AnswerIsBack' /\ DialIsHanded'
  BY <1>1 DEF PoolInv, PoolType, EntriesAreMapped, BackIsHanded, AnswerIsBack, DialIsHanded, Slot, Entry, Pool!PoolAssumption, Pool!ClearForward, Pool!HasEntry, Pool!Expired, Pool!NoEntry, Pool!Idle, Pool!Addresses, Pool!None
<1> QED BY <1>2, <1>3, <1>4 DEF PoolInv

LEMMA ClearBackType == ASSUME PoolType, Pool!PoolAssumption, Pool!ClearBack PROVE PoolType'
  BY DEF PoolType, Slot, Entry, Pool!PoolAssumption, Pool!ClearBack, Pool!HasEntry, Pool!Expired, Pool!NoEntry, Pool!Idle, Pool!Addresses, Pool!None
LEMMA ClearBackInv == ASSUME PoolType, PoolInv, Pool!PoolAssumption, Pool!ClearBack PROVE PoolInv'
<1>1. PoolType' BY ClearBackType
<1> SUFFICES ASSUME ~raced' PROVE PoolInv' BY DEF PoolInv
<1>2. EntriesAreMapped' BY <1>1 DEF PoolInv, PoolType, EntriesAreMapped, SlotIsFree, Slot, Entry, Pool!PoolAssumption, Pool!ClearBack, Pool!HasEntry, Pool!Expired, Pool!NoEntry, Pool!Idle, Pool!Addresses, Pool!None
<1>3. SlotIsFree' BY <1>1 DEF PoolInv, PoolType, EntriesAreMapped, SlotIsFree, Slot, Entry, Pool!PoolAssumption, Pool!ClearBack, Pool!HasEntry, Pool!Expired, Pool!NoEntry, Pool!Idle, Pool!Addresses, Pool!None
<1>4. BackIsHanded' /\ AnswerIsBack' /\ DialIsHanded'
  BY <1>1 DEF PoolInv, PoolType, EntriesAreMapped, BackIsHanded, AnswerIsBack, DialIsHanded, Slot, Entry, Pool!PoolAssumption, Pool!ClearBack, Pool!HasEntry, Pool!Expired, Pool!NoEntry, Pool!Idle, Pool!Addresses, Pool!None
<1> QED BY <1>2, <1>3, <1>4 DEF PoolInv

LEMMA ClearOffsetType == ASSUME PoolType, Pool!PoolAssumption, Pool!ClearOffset PROVE PoolType'
  BY DEF PoolType, Slot, Entry, Pool!PoolAssumption, Pool!ClearOffset, Pool!HasEntry, Pool!Expired, Pool!NoEntry, Pool!Idle, Pool!Addresses, Pool!None
LEMMA ClearOffsetInv == ASSUME PoolType, PoolInv, Pool!PoolAssumption, Pool!ClearOffset PROVE PoolInv'
<1>1. PoolType' BY ClearOffsetType
<1> SUFFICES ASSUME ~raced' PROVE PoolInv' BY DEF PoolInv
<1>2. EntriesAreMapped' BY <1>1 DEF PoolInv, PoolType, EntriesAreMapped, SlotIsFree, Slot, Entry, Pool!PoolAssumption, Pool!ClearOffset, Pool!HasEntry, Pool!Expired, Pool!NoEntry, Pool!Idle, Pool!Addresses, Pool!None
<1>3. SlotIsFree' BY <1>1 DEF PoolInv, PoolType, EntriesAreMapped, SlotIsFree, Slot, Entry, Pool!PoolAssumption, Pool!ClearOffset, Pool!HasEntry, Pool!Expired, Pool!NoEntry, Pool!Idle, Pool!Addresses, Pool!None
<1>4. BackIsHanded' /\ AnswerIsBack' /\ DialIsHanded'
  BY <1>1 DEF PoolInv, PoolType, EntriesAreMapped, BackIsHanded, AnswerIsBack, DialIsHanded, Slot, Entry, Pool!PoolAssumption, Pool!ClearOffset, Pool!HasEntry, Pool!Expired, Pool!NoEntry, Pool!Idle, Pool!Addresses, Pool!None
<1> QED BY <1>2, <1>3, <1>4 DEF PoolInv

\* The whole cleanup of the packet thread: what it takes out of the reverse map
\* is the mapping of an entry it takes out of the forward map.
LEMMA AllocateMissStep ==
  ASSUME NEW n \in Names, PoolType, Pool!PoolAssumption, Pool!AllocateMiss(n)
  PROVE \E dead \in SUBSET Names :
          /\ \A m \in dead : Pool!HasEntry(m)
          /\ fwd' = [m \in Names |-> IF m \in dead THEN Pool!NoEntry ELSE fwd[m]]
          /\ back' = [a \in Slot |-> IF \E m \in dead : fwd[m].ip = a THEN Pool!None ELSE back[a]]
          /\ raced' = (raced \/ \E m \in dead : back[fwd[m].ip] \notin {m, Pool!None})
          /\ packet.pc = "idle"
          /\ \/ packet' = [pc |-> "exhausted", name |-> n, ip |-> 0] /\ next' = next
             \/ packet' = [pc |-> "evict", name |-> n, ip |-> 1 + next] /\ next' = (next + 1) % Slots
          /\ UNCHANGED <<now, reaper, handed>>
<1> DEFINE full == Pool!Cardinality(Pool!Held) >= Slots
           dead == IF full THEN {m \in Names : Pool!Expired(m)} ELSE {}
<1>1. dead \in SUBSET Names /\ \A m \in dead : Pool!HasEntry(m) BY DEF Pool!Expired
<1> QED BY <1>1 DEF Pool!AllocateMiss, Slot, Pool!Addresses

LEMMA AllocateMissType ==
  ASSUME NEW n \in Names, PoolType, Pool!PoolAssumption, Pool!AllocateMiss(n) PROVE PoolType'
<1>1. PICK dead \in SUBSET Names :
          /\ fwd' = [m \in Names |-> IF m \in dead THEN Pool!NoEntry ELSE fwd[m]]
          /\ back' = [a \in Slot |-> IF \E m \in dead : fwd[m].ip = a THEN Pool!None ELSE back[a]]
          /\ raced' = (raced \/ \E m \in dead : back[fwd[m].ip] \notin {m, Pool!None})
          /\ \/ packet' = [pc |-> "exhausted", name |-> n, ip |-> 0] /\ next' = next
             \/ packet' = [pc |-> "evict", name |-> n, ip |-> 1 + next] /\ next' = (next + 1) % Slots
          /\ UNCHANGED <<now, reaper, handed>>
  BY AllocateMissStep
<1>2. next' \in 0 .. Slots - 1 BY <1>1 DEF PoolType, Pool!PoolAssumption
<1>3. Pool!NoEntry \in Entry BY NoEntryIsEntry
<1>4. fwd' \in [Names -> Entry] BY <1>1, <1>3 DEF PoolType
<1>5. \A m \in Names : Pool!HasEntry(m)' => fwd'[m].ip \in Slot BY <1>1 DEF PoolType, Pool!HasEntry
<1>6. back' \in [Slot -> Names \cup {Pool!None}] BY <1>1 DEF PoolType
<1>7. packet' = [pc |-> packet'.pc, name |-> packet'.name, ip |-> packet'.ip] BY <1>1
<1>8. packet'.pc \in {"exhausted", "evict"} /\ (packet'.pc = "evict" => packet'.name \in Names /\ packet'.ip \in Slot)
  BY <1>1 DEF PoolType, Slot, Pool!PoolAssumption
<1> QED BY <1>1, <1>2, <1>4, <1>5, <1>6, <1>7, <1>8 DEF PoolType

LEMMA AllocateMissInv ==
  ASSUME NEW n \in Names, PoolType, PoolInv, Pool!PoolAssumption, Pool!AllocateMiss(n) PROVE PoolInv'
<1>1. PICK dead \in SUBSET Names :
          /\ \A m \in dead : Pool!HasEntry(m)
          /\ fwd' = [m \in Names |-> IF m \in dead THEN Pool!NoEntry ELSE fwd[m]]
          /\ back' = [a \in Slot |-> IF \E m \in dead : fwd[m].ip = a THEN Pool!None ELSE back[a]]
          /\ raced' = (raced \/ \E m \in dead : back[fwd[m].ip] \notin {m, Pool!None})
          /\ packet.pc = "idle"
          /\ packet'.pc \in {"exhausted", "evict"}
          /\ UNCHANGED handed
  BY AllocateMissStep
<1> SUFFICES ASSUME ~raced' PROVE PoolInv' BY DEF PoolInv
<1>2. EntriesAreMapped /\ BackIsHanded BY <1>1 DEF PoolInv
<1>3. ASSUME NEW m \in Names, Pool!HasEntry(m)' PROVE back'[fwd'[m].ip] = m
  <2>1. m \notin dead /\ fwd'[m] = fwd[m] /\ Pool!HasEntry(m) BY <1>1, <1>3 DEF Pool!HasEntry
  <2>2. back[fwd[m].ip] = m BY <2>1, <1>1, <1>2 DEF EntriesAreMapped
  <2>3. \A d \in dead : fwd[d].ip # fwd[m].ip BY <2>1, <2>2, <1>1, <1>2 DEF EntriesAreMapped
  <2> QED BY <2>1, <2>2, <2>3, <1>1 DEF PoolType
<1>4. EntriesAreMapped' BY <1>3 DEF EntriesAreMapped
<1>5. BackIsHanded' BY <1>1, <1>2 DEF BackIsHanded
<1> QED BY <1>1, <1>4, <1>5 DEF PoolInv, SlotIsFree, AnswerIsBack, DialIsHanded

LEMMA PoolNext ==
  ASSUME PoolType, PoolInv, Pool!PoolAssumption, [Pool!Next]_(Pool!vars) PROVE PoolType' /\ PoolInv'
<1>1. CASE UNCHANGED Pool!vars
  BY <1>1 DEF Pool!vars, PoolType, PoolInv, EntriesAreMapped, SlotIsFree, BackIsHanded, AnswerIsBack,
              DialIsHanded, Pool!HasEntry
<1>2. CASE Pool!Tick BY <1>2, TickType, TickInv
<1>3. ASSUME NEW n \in Names, Pool!AnswerReal(n) PROVE PoolType' /\ PoolInv'
  BY <1>3, AnswerRealType, AnswerRealInv
<1>4. ASSUME NEW n \in Names, Pool!AllocateHit(n) PROVE PoolType' /\ PoolInv'
  BY <1>4, AllocateHitType, AllocateHitInv
<1>5. ASSUME NEW n \in Names, Pool!AllocateMiss(n) PROVE PoolType' /\ PoolInv'
  BY <1>5, AllocateMissType, AllocateMissInv
<1>6. CASE Pool!Evict BY <1>6, EvictType, EvictInv
<1>7. CASE Pool!InsertForward BY <1>7, InsertForwardType, InsertForwardInv
<1>8. CASE Pool!InsertBack BY <1>8, InsertBackType, InsertBackInv
<1>9. CASE Pool!Answer BY <1>9, AnswerType, AnswerInv
<1>10. ASSUME NEW a \in Slot, Pool!Dial(a) PROVE PoolType' /\ PoolInv'
  BY <1>10, DialType, DialInv
<1>11. CASE Pool!Collect BY <1>11, CollectType, CollectInv
<1>12. CASE Pool!ReapForward BY <1>12, ReapForwardType, ReapForwardInv
<1>13. CASE Pool!ReapBack BY <1>13, ReapBackType, ReapBackInv
<1>14. CASE Pool!ClearForward BY <1>14, ClearForwardType, ClearForwardInv
<1>15. CASE Pool!ClearBack BY <1>15, ClearBackType, ClearBackInv
<1>16. CASE Pool!ClearOffset BY <1>16, ClearOffsetType, ClearOffsetInv
<1> QED BY <1>1, <1>2, <1>3, <1>4, <1>5, <1>6, <1>7, <1>8, <1>9, <1>10, <1>11, <1>12, <1>13,
           <1>14, <1>15, <1>16 DEF Pool!Next, Slot, Pool!Addresses

\* However queries, expiries, evictions and wrap-arounds of the pool interleave
\* with the cleanup thread and with resets, a connection to a fake address goes
\* to the name it was last answered for or nowhere, unless a removal overlapped
\* an allocation (DnsHandler::allocate, cleanup, clear and reverse_lookup).
THEOREM FakeAddressIsOneName ==
  ASSUME Pool!PoolAssumption PROVE Pool!Spec => []Pool!AnswersAreOwn
<1>1. Pool!Init => PoolType /\ PoolInv
  <2> SUFFICES ASSUME Pool!Init PROVE PoolType /\ PoolInv OBVIOUS
  <2>1. \A n \in Names : ~Pool!HasEntry(n) BY DEF Pool!Init, Pool!HasEntry
  <2>2. fwd \in [Names -> Entry] BY NoEntryIsEntry DEF Pool!Init
  <2>3. packet.pc = "idle" /\ packet = [pc |-> packet.pc, name |-> packet.name, ip |-> packet.ip]
    BY DEF Pool!Init, Pool!Idle
  <2>4. /\ back \in [Slot -> Names \cup {Pool!None}] /\ handed \in [Slot -> Names \cup {Pool!None}]
        /\ \A a \in Slot : back[a] = Pool!None
    BY DEF Pool!Init, Slot, Pool!Addresses
  <2>5. now \in Nat /\ next \in 0 .. Slots - 1 BY DEF Pool!Init, Pool!PoolAssumption
  <2>6. reaper = [todo |-> reaper.todo, half |-> reaper.half] /\ reaper.todo = {} /\ reaper.half = 0
    BY DEF Pool!Init
  <2>7. raced \in BOOLEAN BY DEF Pool!Init
  <2>8. PoolType BY <2>1, <2>2, <2>3, <2>4, <2>5, <2>6, <2>7 DEF PoolType, Pool!PoolAssumption
  <2> QED BY <2>1, <2>3, <2>4, <2>8 DEF PoolInv, EntriesAreMapped, SlotIsFree, BackIsHanded,
                                       AnswerIsBack, DialIsHanded
<1>2. PoolType /\ PoolInv /\ [Pool!Next]_(Pool!vars) => PoolType' /\ PoolInv' BY PoolNext
<1>3. PoolType /\ PoolInv => Pool!AnswersAreOwn BY DEF PoolInv, DialIsHanded, Pool!AnswersAreOwn
<1> QED BY <1>1, <1>2, <1>3, PTL DEF Pool!Spec

(***************************************************************************)
(* UdpSessions                                                             *)
(***************************************************************************)

Udp == INSTANCE UdpSessions

Doing == {"idle", "lookup", "limit", "bind", "count", "spawn", "insert", "register", "send"}
Job == [at : Doing, client : Clients \cup {None}, target : Targets \cup {None},
        session : Sessions \cup {None}]

SessionType ==
  /\ sink \in [Clients -> {"new", "open", "dropped"}]
  /\ address \in [Clients -> Addresses \cup {None}]
  /\ stage \in [Sessions -> Udp!Stages]
  /\ sinks \in [Sessions -> SUBSET Clients]
  /\ table \in [Addresses \X Targets -> Sessions \cup {None}]
  /\ job \in [Workers -> Job]

\* A worker's datagram keeps its association open.
JobIsHeld ==
  \A w \in Workers :
    /\ job[w].at # "idle" => /\ job[w].client \in Clients /\ sink[job[w].client] = "open"
                             /\ job[w].target \in Targets
    /\ job[w].at = "idle" => job[w].session = None
    /\ job[w].at \in {"count", "spawn", "insert", "register", "send"} => job[w].session \in Sessions

\* Two open sinks are at two addresses.
OpenApart ==
  /\ \A c \in Clients : sink[c] = "open" => address[c] \in Addresses
  /\ \A c, d \in Clients : c # d /\ sink[c] = "open" /\ sink[d] = "open" => address[c] # address[d]

\* Everything that leads to a session has one address.
Home(s, a) ==
  /\ \A c \in sinks[s] : address[c] = a
  /\ \A k \in Addresses \X Targets : table[k] = s => k[1] = a
  /\ \A w \in Workers : job[w].session = s => address[job[w].client] = a
HasHome == \A s \in Sessions : \E a \in Addresses \cup {None} : Home(s, a)

SinkIsSeen == \A s \in Sessions : \A c \in sinks[s] : sink[c] # "new"

\* Nothing leads to a session that its worker has not started.
NotStarted ==
  \A w \in Workers : job[w].at \in {"count", "spawn"} =>
    /\ stage[job[w].session] = "bound"
    /\ \A v \in Workers \ {w} : job[v].session # job[w].session
    /\ \A k \in Addresses \X Targets : table[k] # job[w].session
NotMade ==
  \A s \in Sessions : stage[s] = "none" =>
    /\ \A k \in Addresses \X Targets : table[k] # s
    /\ \A w \in Workers : job[w].session # s

Reading == {s \in Sessions : stage[s] \in {"running", "deaf", "over"}}
Starting == {w \in Workers : job[w].at = "spawn"}
Counted == live = Cardinality(Reading) + Cardinality(Starting)

SessionInv ==
  /\ SessionType /\ JobIsHeld /\ OpenApart /\ HasHome /\ SinkIsSeen /\ NotStarted /\ NotMade /\ Counted


LEMMA SessionsCardinality == ASSUME NEW S PROVE Udp!Cardinality(S) = Cardinality(S)
  BY DEF Udp!Cardinality, Cardinality
LEMMA SessionsFinite == ASSUME NEW S PROVE Udp!IsFiniteSet(S) = IsFiniteSet(S)
  BY DEF Udp!IsFiniteSet, IsFiniteSet

LEMMA CountedAreFinite ==
  ASSUME Udp!SessionsAssumption
  PROVE /\ IsFiniteSet(Reading) /\ IsFiniteSet(Starting)
        /\ Cardinality(Reading) \in Nat /\ Cardinality(Starting) \in Nat
<1>1. IsFiniteSet(Sessions) /\ IsFiniteSet(Workers) BY SessionsFinite DEF Udp!SessionsAssumption
<1>2. Reading \in SUBSET Sessions /\ Starting \in SUBSET Workers BY DEF Reading, Starting
<1>3. IsFiniteSet(Reading) /\ IsFiniteSet(Starting) BY <1>1, <1>2, FS_Subset
<1> QED BY <1>3, FS_CardinalityType

\* What a step does to the job of w; the other jobs stay.
JobsStay(w) == job' \in [Workers -> Job] /\ \A v \in Workers \ {w} : job'[v] = job[v]
Shifted(w, x, c, t, s) ==
  /\ JobsStay(w) /\ job'[w].at = x /\ job'[w].client = c /\ job'[w].target = t /\ job'[w].session = s

LEMMA JobSet ==
  ASSUME SessionType, NEW w \in Workers, NEW r \in Job, job' = [job EXCEPT ![w] = r]
  PROVE Shifted(w, r.at, r.client, r.target, r.session)
  BY DEF SessionType, Shifted, JobsStay

LEMMA JobGoes ==
  ASSUME SessionType, NEW w \in Workers, NEW x \in Doing, Udp!Go(w, x)
  PROVE Shifted(w, x, job[w].client, job[w].target, job[w].session)
<1> DEFINE r == [job[w] EXCEPT !.at = x]
<1>1. job[w] \in Job /\ job' = [job EXCEPT ![w] = r] BY DEF SessionType, Udp!Go
<1>2. r \in Job BY <1>1 DEF Job
<1>3. r.at = x /\ r.client = job[w].client /\ r.target = job[w].target /\ r.session = job[w].session
  BY <1>1 DEF Job
<1> HIDE DEF r
<1>4. Shifted(w, r.at, r.client, r.target, r.session) BY <1>1, <1>2, JobSet
<1> QED BY <1>3, <1>4

LEMMA JobTakes ==
  ASSUME SessionType, NEW w \in Workers, NEW x \in Doing, NEW s \in Sessions,
         job' = [job EXCEPT ![w].at = x, ![w].session = s]
  PROVE Shifted(w, x, job[w].client, job[w].target, s)
<1> DEFINE r == [job[w] EXCEPT !.at = x, !.session = s]
<1>1. job[w] \in Job /\ job' = [job EXCEPT ![w] = r] BY DEF SessionType
<1>2. r \in Job BY <1>1 DEF Job
<1>3. r.at = x /\ r.client = job[w].client /\ r.target = job[w].target /\ r.session = s
  BY <1>1 DEF Job
<1> HIDE DEF r
<1>4. Shifted(w, r.at, r.client, r.target, r.session) BY <1>1, <1>2, JobSet
<1> QED BY <1>3, <1>4

LEMMA JobFails ==
  ASSUME SessionType, NEW w \in Workers, Udp!Fail(w) PROVE Shifted(w, "idle", None, None, None)
<1>1. Udp!Idle \in Job BY DEF Udp!Idle, Job, Doing
<1>2. Udp!Idle.at = "idle" /\ Udp!Idle.client = None /\ Udp!Idle.target = None /\ Udp!Idle.session = None
  BY DEF Udp!Idle
<1>3. Shifted(w, Udp!Idle.at, Udp!Idle.client, Udp!Idle.target, Udp!Idle.session)
  BY <1>1, JobSet DEF Udp!Fail
<1> QED BY <1>2, <1>3

\* A worker goes on while the tables stay: with the session it has, with none,
\* or with one that the table holds for its client's address.
LEMMA JobMoves ==
  ASSUME SessionInv, Udp!SessionsAssumption, NEW w \in Workers,
         NEW x \in Doing \ {"count", "spawn"}, NEW c, NEW t, NEW s,
         Shifted(w, x, c, t, s), job[w].at \notin {"count", "spawn"},
         x = "idle" => s = None, x # "idle" => c \in Clients /\ sink[c] = "open" /\ t \in Targets,
         x \in {"insert", "register", "send"} => s \in Sessions,
         \/ s = None
         \/ s = job[w].session /\ c = job[w].client
         \/ \E k \in Addresses \X Targets : table[k] = s /\ k[1] = address[c],
         UNCHANGED <<sink, address, stage, sinks, table, live>>
  PROVE SessionInv'
<1> USE DEF Shifted, JobsStay
<1>1. SessionType' BY DEF SessionInv, SessionType
<1>2. JobIsHeld' BY DEF SessionInv, JobIsHeld
<1>3. OpenApart' /\ SinkIsSeen' BY DEF SessionInv, OpenApart, SinkIsSeen
<1>4. ASSUME NEW z \in Sessions PROVE \E a \in Addresses \cup {None} : Home(z, a)'
  <2>1. PICK a \in Addresses \cup {None} : Home(z, a) BY DEF SessionInv, HasHome
  <2>2. z # None BY DEF Udp!SessionsAssumption
  <2>3. Home(z, a)' BY <2>1, <2>2 DEF Home
  <2> QED BY <2>3
<1>5. HasHome' BY <1>4 DEF HasHome
<1>6. ASSUME NEW v \in Workers, job'[v].at \in {"count", "spawn"}
      PROVE /\ stage'[job'[v].session] = "bound"
            /\ \A u \in Workers \ {v} : job'[u].session # job'[v].session
            /\ \A k \in Addresses \X Targets : table'[k] # job'[v].session
  <2>1. v # w /\ job'[v] = job[v] BY <1>6
  <2>2. /\ stage[job[v].session] = "bound" /\ job[v].session \in Sessions
        /\ \A u \in Workers \ {v} : job[u].session # job[v].session
        /\ \A k \in Addresses \X Targets : table[k] # job[v].session
    BY <1>6, <2>1 DEF SessionInv, NotStarted, JobIsHeld
  <2>3. s # job[v].session BY <2>1, <2>2 DEF Udp!SessionsAssumption
  <2> QED BY <2>1, <2>2, <2>3
<1>7. NotStarted' BY <1>6 DEF NotStarted
<1>8. ASSUME NEW z \in Sessions, stage[z] = "none"
      PROVE (\A k \in Addresses \X Targets : table[k] # z) /\ (\A v \in Workers : job'[v].session # z)
  <2>1. (\A k \in Addresses \X Targets : table[k] # z) /\ (\A v \in Workers : job[v].session # z) /\ z # None
    BY <1>8 DEF SessionInv, NotMade, Udp!SessionsAssumption
  <2> QED BY <2>1
<1>9. NotMade' BY <1>8 DEF NotMade
<1>10. Starting' = Starting /\ Reading' = Reading BY DEF Starting, Reading
<1>11. Counted' BY <1>10 DEF SessionInv, Counted
<1> QED BY <1>1, <1>2, <1>3, <1>5, <1>7, <1>9, <1>11 DEF SessionInv

LEMMA SubmitInv ==
  ASSUME SessionInv, Udp!SessionsAssumption, NEW w \in Workers, NEW c \in Clients, NEW t \in Targets,
         Udp!Submit(w, c, t)
  PROVE SessionInv'
<1> DEFINE r == [at |-> "lookup", client |-> c, target |-> t, session |-> None]
<1>1. r \in Job /\ r.at = "lookup" /\ r.client = c /\ r.target = t /\ r.session = None BY DEF Job, Doing
<1>2. job' = [job EXCEPT ![w] = r] /\ SessionType /\ job[w].at = "idle" /\ sink[c] = "open"
  BY DEF Udp!Submit, Udp!At, SessionInv
<1> HIDE DEF r
<1>3. Shifted(w, "lookup", c, t, None) BY <1>1, <1>2, JobSet
<1>4. UNCHANGED <<sink, address, stage, sinks, table, live>> BY DEF Udp!Submit, Udp!session
<1>5. "lookup" \in Doing \ {"count", "spawn"} BY DEF Doing
<1> QED BY <1>2, <1>3, <1>4, <1>5, JobMoves

LEMMA LookupInv ==
  ASSUME SessionInv, Udp!SessionsAssumption, NEW w \in Workers, Udp!Lookup(w) PROVE SessionInv'
<1>1. SessionType /\ job[w].at = "lookup" BY DEF Udp!Lookup, Udp!At, SessionInv
<1>2. job[w].client \in Clients /\ sink[job[w].client] = "open" /\ job[w].target \in Targets
      /\ address[job[w].client] \in Addresses
  BY <1>1 DEF SessionInv, JobIsHeld, OpenApart
<1>3. UNCHANGED <<sink, address, stage, sinks, table, live>> BY DEF Udp!Lookup, Udp!session
<1> DEFINE k == <<address[job[w].client], job[w].target>>
<1>4. k \in Addresses \X Targets /\ k[1] = address[job[w].client] BY <1>2
<1>5. CASE table[k] # None /\ job' = [job EXCEPT ![w].at = "register", ![w].session = table[k]]
  <2>1. table[k] \in Sessions BY <1>1, <1>4, <1>5 DEF SessionType
  <2>2. "register" \in Doing \ {"count", "spawn"} BY DEF Doing
  <2>3. Shifted(w, "register", job[w].client, job[w].target, table[k]) BY <1>1, <1>5, <2>1, <2>2, JobTakes
  <2>4. \E kk \in Addresses \X Targets : table[kk] = table[k] /\ kk[1] = address[job[w].client] BY <1>4
  <2> QED BY <1>1, <1>2, <1>3, <2>1, <2>2, <2>3, <2>4, JobMoves
<1>6. CASE Udp!Go(w, "limit")
  <2>1. "limit" \in Doing \ {"count", "spawn"} BY DEF Doing
  <2>2. Shifted(w, "limit", job[w].client, job[w].target, job[w].session) BY <1>1, <1>6, <2>1, JobGoes
  <2> QED BY <1>1, <1>2, <1>3, <2>1, <2>2, JobMoves
<1> QED BY <1>5, <1>6 DEF Udp!Lookup, Udp!Key

\* The datagram is given up or has been sent.
LEMMA FailInv ==
  ASSUME SessionInv, Udp!SessionsAssumption, NEW w \in Workers, Udp!Fail(w),
         job[w].at \notin {"count", "spawn"}, UNCHANGED <<sink, address, stage, sinks, table, live>>
  PROVE SessionInv'
<1>1. Shifted(w, "idle", None, None, None) BY JobFails DEF SessionInv
<1>2. "idle" \in Doing \ {"count", "spawn"} BY DEF Doing
<1> QED BY <1>1, <1>2, JobMoves

LEMMA CheckLimitInv ==
  ASSUME SessionInv, Udp!SessionsAssumption, NEW w \in Workers, Udp!CheckLimit(w) PROVE SessionInv'
<1>1. SessionType /\ job[w].at = "limit" BY DEF Udp!CheckLimit, Udp!At, SessionInv
<1>2. job[w].client \in Clients /\ sink[job[w].client] = "open" /\ job[w].target \in Targets
  BY <1>1 DEF SessionInv, JobIsHeld
<1>3. UNCHANGED <<sink, address, stage, sinks, table, live>> BY DEF Udp!CheckLimit, Udp!session
<1>4. CASE Udp!Go(w, "bind")
  <2>1. "bind" \in Doing \ {"count", "spawn"} BY DEF Doing
  <2>2. Shifted(w, "bind", job[w].client, job[w].target, job[w].session) BY <1>1, <1>4, <2>1, JobGoes
  <2> QED BY <1>1, <1>2, <1>3, <2>1, <2>2, JobMoves
<1>5. CASE Udp!Fail(w) BY <1>1, <1>3, <1>5, FailInv
<1> QED BY <1>4, <1>5 DEF Udp!CheckLimit

LEMMA SendInv ==
  ASSUME SessionInv, Udp!SessionsAssumption, NEW w \in Workers, Udp!Send(w) \/ Udp!SsSend(w) PROVE SessionInv'
<1>1. /\ Udp!Fail(w) /\ job[w].at = "send"
      /\ UNCHANGED <<sink, address, stage, sinks, table, live>>
  BY DEF Udp!Send, Udp!SsSend, Udp!At
<1> QED BY <1>1, FailInv

\* A session object is made: nothing led to it.
LEMMA BoundInv ==
  ASSUME SessionInv, Udp!SessionsAssumption, NEW w \in Workers, job[w].at = "bind", Udp!Bound(w),
         UNCHANGED <<sink, address, table, live>>
  PROVE SessionInv'
<1>1. SessionType /\ job[w].client \in Clients /\ sink[job[w].client] = "open" /\ job[w].target \in Targets
      /\ address[job[w].client] \in Addresses
  BY DEF SessionInv, JobIsHeld, OpenApart
<1>2. PICK s \in Sessions :
        /\ stage[s] = "none" \/ (stage[s] = "ended" /\ ~Udp!Referenced(s))
        /\ stage' = [stage EXCEPT ![s] = "bound"] /\ sinks' = [sinks EXCEPT ![s] = {}]
        /\ job' = [job EXCEPT ![w].at = "count", ![w].session = s]
  BY DEF Udp!Bound
<1>3. "count" \in Doing /\ "bound" \in Udp!Stages BY DEF Doing, Udp!Stages
<1>4. Shifted(w, "count", job[w].client, job[w].target, s) BY <1>1, <1>2, <1>3, JobTakes
<1>5. /\ \A k \in Addresses \X Targets : table[k] # s
      /\ \A v \in Workers : job[v].session # s
  BY <1>2 DEF SessionInv, NotMade, Udp!Referenced, Udp!Holders, Udp!TableKeys
<1>6. /\ stage' \in [Sessions -> Udp!Stages] /\ stage'[s] = "bound"
      /\ sinks' \in [Sessions -> SUBSET Clients] /\ sinks'[s] = {}
      /\ \A z \in Sessions \ {s} : stage'[z] = stage[z] /\ sinks'[z] = sinks[z]
  BY <1>1, <1>2, <1>3 DEF SessionType
<1> USE DEF Shifted, JobsStay
<1>7. SessionType' BY <1>1, <1>4, <1>6 DEF SessionType
<1>8. JobIsHeld' BY <1>1, <1>4 DEF SessionInv, JobIsHeld
<1>9. OpenApart' BY DEF SessionInv, OpenApart
<1>10. SinkIsSeen' BY <1>6 DEF SessionInv, SinkIsSeen
<1>12. ASSUME NEW z \in Sessions \ {s} PROVE \E a \in Addresses \cup {None} : Home(z, a)'
  <2>1. PICK a \in Addresses \cup {None} : Home(z, a) BY DEF SessionInv, HasHome
  <2>2. Home(z, a)' BY <1>4, <1>6, <2>1 DEF Home
  <2> QED BY <2>2
<1>13. PICK b \in Addresses : b = address[job[w].client] BY <1>1
<1>14. Home(s, b)' BY <1>4, <1>5, <1>6, <1>13 DEF Home
<1>15. HasHome' BY <1>12, <1>14 DEF HasHome
<1>16. NotStarted'
  <2> SUFFICES ASSUME NEW v \in Workers, job'[v].at \in {"count", "spawn"}
               PROVE /\ stage'[job'[v].session] = "bound"
                     /\ \A u \in Workers \ {v} : job'[u].session # job'[v].session
                     /\ \A k \in Addresses \X Targets : table'[k] # job'[v].session
    BY DEF NotStarted
  <2>1. CASE v = w BY <1>4, <1>5, <1>6, <2>1
  <2>2. CASE v # w
    <3>1. /\ job'[v] = job[v] /\ stage[job[v].session] = "bound" /\ job[v].session \in Sessions
          /\ \A u \in Workers \ {v} : job[u].session # job[v].session
          /\ \A k \in Addresses \X Targets : table[k] # job[v].session
      BY <1>4, <2>2 DEF SessionInv, NotStarted, JobIsHeld
    <3> QED BY <1>4, <1>5, <1>6, <2>2, <3>1
  <2> QED BY <2>1, <2>2
<1>17. NotMade' BY <1>4, <1>6 DEF SessionInv, NotMade
<1>18. Reading' = Reading BY <1>2, <1>6 DEF Reading
<1>19. Starting' = Starting BY <1>4 DEF Starting
<1>20. Counted' BY <1>18, <1>19 DEF SessionInv, Counted
<1> QED BY <1>7, <1>8, <1>9, <1>10, <1>15, <1>16, <1>17, <1>20 DEF SessionInv

LEMMA BindInv ==
  ASSUME SessionInv, Udp!SessionsAssumption, NEW w \in Workers, Udp!Bind(w) \/ Udp!CreateUdpSession(w)
  PROVE SessionInv'
<1>1. job[w].at = "bind" /\ UNCHANGED <<sink, address, table, live>>
      /\ (Udp!Bound(w) \/ (Udp!Fail(w) /\ UNCHANGED <<stage, sinks>>))
  BY DEF Udp!Bind, Udp!CreateUdpSession, Udp!At, Udp!session
<1> QED BY <1>1, BoundInv, FailInv

\* A worker goes on with the session it has made, which nothing else leads to.
LEMMA StartMoves ==
  ASSUME SessionInv, Udp!SessionsAssumption, NEW w \in Workers, job[w].at \in {"count", "spawn"},
         NEW x \in {"spawn", "insert"}, NEW s \in Sessions, s = job[w].session,
         Shifted(w, x, job[w].client, job[w].target, job[w].session),
         stage' = [stage EXCEPT ![s] = IF x = "insert" THEN "running" ELSE @],
         UNCHANGED <<sink, address, sinks, table>>, Counted'
  PROVE SessionInv'
<1> USE DEF Shifted, JobsStay
<1>1. SessionType /\ stage[s] = "bound" BY DEF SessionInv, NotStarted
<1>2. /\ stage' \in [Sessions -> Udp!Stages] /\ stage'[s] = (IF x = "insert" THEN "running" ELSE "bound")
      /\ \A z \in Sessions \ {s} : stage'[z] = stage[z]
  BY <1>1 DEF SessionType, Udp!Stages
<1>3. SessionType' BY <1>1, <1>2 DEF SessionType
<1>4. JobIsHeld' BY DEF SessionInv, JobIsHeld
<1>5. OpenApart' /\ SinkIsSeen' BY DEF SessionInv, OpenApart, SinkIsSeen
<1>6. ASSUME NEW z \in Sessions PROVE \E a \in Addresses \cup {None} : Home(z, a)'
  <2>1. PICK a \in Addresses \cup {None} : Home(z, a) BY DEF SessionInv, HasHome
  <2>2. Home(z, a)' BY <2>1 DEF Home
  <2> QED BY <2>2
<1>7. HasHome' BY <1>6 DEF HasHome
<1>8. NotStarted'
  <2> SUFFICES ASSUME NEW v \in Workers, job'[v].at \in {"count", "spawn"}
               PROVE /\ stage'[job'[v].session] = "bound"
                     /\ \A u \in Workers \ {v} : job'[u].session # job'[v].session
                     /\ \A k \in Addresses \X Targets : table'[k] # job'[v].session
    BY DEF NotStarted
  <2>1. job[v].at \in {"count", "spawn"} /\ job'[v].session = job[v].session /\ (v = w => x = "spawn") OBVIOUS
  <2>2. /\ stage[job[v].session] = "bound" /\ job[v].session \in Sessions
        /\ \A u \in Workers \ {v} : job[u].session # job[v].session
        /\ \A k \in Addresses \X Targets : table[k] # job[v].session
    BY <2>1 DEF SessionInv, NotStarted, JobIsHeld
  <2>3. \A u \in Workers : job'[u].session = job[u].session OBVIOUS
  <2>4. CASE v = w BY <1>2, <2>1, <2>2, <2>3, <2>4
  <2>5. CASE v # w
    <3>1. job[v].session # s BY <2>2, <2>5
    <3> QED BY <1>2, <2>1, <2>2, <2>3, <3>1
  <2> QED BY <2>4, <2>5
<1>9. NotMade'
  <2>1. \A u \in Workers : job'[u].session = job[u].session OBVIOUS
  <2> QED BY <1>2, <2>1 DEF SessionInv, NotMade
<1> QED BY <1>3, <1>4, <1>5, <1>7, <1>8, <1>9 DEF SessionInv

LEMMA CountSessionInv ==
  ASSUME SessionInv, Udp!SessionsAssumption, NEW w \in Workers, Udp!CountSession(w) PROVE SessionInv'
<1>1. /\ SessionType /\ job[w].at = "count" /\ Udp!Go(w, "spawn") /\ live' = live + 1
      /\ UNCHANGED <<sink, address, stage, sinks, table>>
  BY DEF Udp!CountSession, Udp!At, Udp!session, SessionInv
<1>2. "spawn" \in Doing BY DEF Doing
<1>3. Shifted(w, "spawn", job[w].client, job[w].target, job[w].session) BY <1>1, <1>2, JobGoes
<1>4. PICK s \in Sessions : s = job[w].session BY <1>1 DEF SessionInv, JobIsHeld
<1>5. Starting' = Starting \cup {w} /\ w \notin Starting BY <1>1, <1>3 DEF Starting, Shifted, JobsStay
<1>6. Reading' = Reading BY <1>1 DEF Reading
<1>7. Cardinality(Starting') = Cardinality(Starting) + 1 BY <1>5, CountedAreFinite, FS_AddElement
<1>8. Counted' BY <1>1, <1>6, <1>7, CountedAreFinite DEF SessionInv, Counted
<1>9. stage' = [stage EXCEPT ![s] = IF "spawn" = "insert" THEN "running" ELSE @] BY <1>1 DEF SessionType
<1> QED BY <1>1, <1>3, <1>4, <1>8, <1>9, StartMoves

LEMMA SpawnInv ==
  ASSUME SessionInv, Udp!SessionsAssumption, NEW w \in Workers, Udp!Spawn(w) PROVE SessionInv'
<1>1. /\ SessionType /\ job[w].at = "spawn" /\ Udp!Go(w, "insert")
      /\ stage' = [stage EXCEPT ![job[w].session] = "running"]
      /\ UNCHANGED <<sink, address, sinks, table, live>>
  BY DEF Udp!Spawn, Udp!At, SessionInv
<1>2. "insert" \in Doing BY DEF Doing
<1>3. Shifted(w, "insert", job[w].client, job[w].target, job[w].session) BY <1>1, <1>2, JobGoes
<1>4. PICK s \in Sessions : s = job[w].session BY <1>1 DEF SessionInv, JobIsHeld
<1>5. Starting' = Starting \ {w} /\ w \in Starting BY <1>1, <1>3 DEF Starting, Shifted, JobsStay
<1>6. stage[s] = "bound" BY <1>1, <1>4 DEF SessionInv, NotStarted
<1>7. Reading' = Reading \cup {s} /\ s \notin Reading BY <1>1, <1>4, <1>6 DEF Reading, SessionType
<1>8. Cardinality(Starting') = Cardinality(Starting) - 1 BY <1>5, CountedAreFinite, FS_RemoveElement
<1>9. Cardinality(Reading') = Cardinality(Reading) + 1 BY <1>7, CountedAreFinite, FS_AddElement
<1>10. Counted' BY <1>1, <1>8, <1>9, CountedAreFinite DEF SessionInv, Counted
<1>11. stage' = [stage EXCEPT ![s] = IF "insert" = "insert" THEN "running" ELSE @] BY <1>1, <1>4
<1> QED BY <1>1, <1>3, <1>4, <1>10, <1>11, StartMoves

LEMMA SpawnFailsInv ==
  ASSUME SessionInv, Udp!SessionsAssumption, NEW w \in Workers, Udp!SpawnFails(w) PROVE SessionInv'
<1>1. /\ SessionType /\ job[w].at = "spawn" /\ Udp!Fail(w) /\ live' = live - 1
      /\ stage' = [stage EXCEPT ![job[w].session] = "none"]
      /\ UNCHANGED <<sink, address, sinks, table>>
  BY DEF Udp!SpawnFails, Udp!At, SessionInv
<1>2. Shifted(w, "idle", None, None, None) BY <1>1, JobFails
<1>3. PICK s \in Sessions : s = job[w].session BY <1>1 DEF SessionInv, JobIsHeld
<1>4. /\ stage[s] = "bound" /\ \A v \in Workers \ {w} : job[v].session # s
      /\ \A k \in Addresses \X Targets : table[k] # s
  BY <1>1, <1>3 DEF SessionInv, NotStarted
<1>5. stage' \in [Sessions -> Udp!Stages] /\ stage'[s] = "none" /\ \A z \in Sessions \ {s} : stage'[z] = stage[z]
  BY <1>1, <1>3 DEF SessionType, Udp!Stages
<1> USE DEF Shifted, JobsStay
<1>6. SessionType' BY <1>1, <1>2, <1>5 DEF SessionType
<1>7. JobIsHeld' BY <1>1, <1>2 DEF SessionInv, JobIsHeld
<1>8. OpenApart' /\ SinkIsSeen' BY <1>1 DEF SessionInv, OpenApart, SinkIsSeen
<1>9. ASSUME NEW z \in Sessions PROVE \E a \in Addresses \cup {None} : Home(z, a)'
  <2>1. PICK a \in Addresses \cup {None} : Home(z, a) BY DEF SessionInv, HasHome
  <2>2. z # None BY DEF Udp!SessionsAssumption
  <2>3. Home(z, a)' BY <1>1, <1>2, <2>1, <2>2 DEF Home
  <2> QED BY <2>3
<1>10. HasHome' BY <1>9 DEF HasHome
<1>11. NotStarted'
  <2> SUFFICES ASSUME NEW v \in Workers, job'[v].at \in {"count", "spawn"}
               PROVE /\ stage'[job'[v].session] = "bound"
                     /\ \A u \in Workers \ {v} : job'[u].session # job'[v].session
                     /\ \A k \in Addresses \X Targets : table'[k] # job'[v].session
    BY DEF NotStarted
  <2>1. v # w /\ job'[v] = job[v] BY <1>2
  <2>2. /\ stage[job[v].session] = "bound" /\ job[v].session \in Sessions
        /\ \A u \in Workers \ {v} : job[u].session # job[v].session
        /\ \A k \in Addresses \X Targets : table[k] # job[v].session
    BY <2>1 DEF SessionInv, NotStarted, JobIsHeld
  <2> QED BY <1>1, <1>2, <1>4, <1>5, <2>1, <2>2 DEF Udp!SessionsAssumption
<1>12. NotMade' BY <1>1, <1>2, <1>4, <1>5 DEF SessionInv, NotMade, Udp!SessionsAssumption
<1>13. Starting' = Starting \ {w} /\ w \in Starting BY <1>1, <1>2 DEF Starting
<1>14. Reading' = Reading BY <1>4, <1>5 DEF Reading
<1>15. Cardinality(Starting') = Cardinality(Starting) - 1 BY <1>13, CountedAreFinite, FS_RemoveElement
<1>16. Counted' BY <1>1, <1>14, <1>15, CountedAreFinite DEF SessionInv, Counted
<1> QED BY <1>6, <1>7, <1>8, <1>10, <1>11, <1>12, <1>16 DEF SessionInv

LEMMA InsertInv ==
  ASSUME SessionInv, Udp!SessionsAssumption, NEW w \in Workers, Udp!Insert(w) PROVE SessionInv'
<1>1. /\ SessionType /\ job[w].at = "insert" /\ Udp!Go(w, "register")
      /\ UNCHANGED <<sink, address, stage, sinks, live>>
  BY DEF Udp!Insert, Udp!At, Udp!session, SessionInv
<1>2. /\ job[w].client \in Clients /\ sink[job[w].client] = "open" /\ job[w].target \in Targets
      /\ address[job[w].client] \in Addresses
  BY <1>1 DEF SessionInv, JobIsHeld, OpenApart
<1>3. PICK s \in Sessions : s = job[w].session BY <1>1 DEF SessionInv, JobIsHeld
<1>4. "register" \in Doing BY DEF Doing
<1>5. Shifted(w, "register", job[w].client, job[w].target, job[w].session) BY <1>1, <1>4, JobGoes
<1>6. PICK key \in Addresses \X Targets : key = <<address[job[w].client], job[w].target>> BY <1>2
<1>7. table' = [k \in Addresses \X Targets |->
                  IF k = key THEN s
                  ELSE IF table[k] # None /\ Udp!Alive(table[k]) THEN table[k] ELSE None]
  BY <1>3, <1>6 DEF Udp!Insert, Udp!Key, Udp!TableKeys
<1>8. /\ table' \in [Addresses \X Targets -> Sessions \cup {None}] /\ table'[key] = s
      /\ \A k \in Addresses \X Targets : table'[k] \in {table[k], None} \/ k = key
  BY <1>1, <1>7 DEF SessionType
<1> USE DEF Shifted, JobsStay
<1>9. SessionType' BY <1>1, <1>5, <1>8 DEF SessionType
<1>10. JobIsHeld' BY <1>1, <1>5 DEF SessionInv, JobIsHeld
<1>11. OpenApart' /\ SinkIsSeen' BY <1>1 DEF SessionInv, OpenApart, SinkIsSeen
<1>12. \A v \in Workers : job'[v].session = job[v].session /\ job'[v].client = job[v].client BY <1>5
<1>13. ASSUME NEW z \in Sessions PROVE \E a \in Addresses \cup {None} : Home(z, a)'
  <2>1. PICK a \in Addresses \cup {None} : Home(z, a) BY DEF SessionInv, HasHome
  <2>2. z # None BY DEF Udp!SessionsAssumption
  <2>3. ASSUME NEW k \in Addresses \X Targets, table'[k] = z PROVE k[1] = a
    <3>1. CASE k = key
      <4>1. z = job[w].session BY <1>3, <1>8, <2>3, <3>1
      <4> QED BY <1>6, <2>1, <3>1, <4>1 DEF Home
    <3>2. CASE k # key BY <1>8, <2>1, <2>2, <2>3, <3>2 DEF Home
    <3> QED BY <3>1, <3>2
  <2>4. Home(z, a)' BY <1>1, <1>12, <2>1, <2>3 DEF Home
  <2> QED BY <2>4
<1>14. HasHome' BY <1>13 DEF HasHome
<1>15. NotStarted'
  <2> SUFFICES ASSUME NEW v \in Workers, job'[v].at \in {"count", "spawn"}
               PROVE /\ stage'[job'[v].session] = "bound"
                     /\ \A u \in Workers \ {v} : job'[u].session # job'[v].session
                     /\ \A k \in Addresses \X Targets : table'[k] # job'[v].session
    BY DEF NotStarted
  <2>1. v # w /\ job'[v] = job[v] BY <1>5
  <2>2. /\ stage[job[v].session] = "bound" /\ job[v].session \in Sessions
        /\ \A u \in Workers \ {v} : job[u].session # job[v].session
        /\ \A k \in Addresses \X Targets : table[k] # job[v].session
    BY <2>1 DEF SessionInv, NotStarted, JobIsHeld
  <2>3. job[v].session # s /\ job[v].session # None BY <1>3, <2>1, <2>2 DEF Udp!SessionsAssumption
  <2>4. \A k \in Addresses \X Targets : table'[k] # job[v].session BY <1>8, <2>2, <2>3
  <2> QED BY <1>1, <1>12, <2>1, <2>2, <2>4
<1>16. NotMade'
  <2> SUFFICES ASSUME NEW z \in Sessions, stage'[z] = "none"
               PROVE /\ \A k \in Addresses \X Targets : table'[k] # z
                     /\ \A v \in Workers : job'[v].session # z
    BY DEF NotMade
  <2>1. (\A k \in Addresses \X Targets : table[k] # z) /\ (\A v \in Workers : job[v].session # z) /\ z # None
    BY <1>1 DEF SessionInv, NotMade, Udp!SessionsAssumption
  <2>2. z # s BY <1>3, <2>1
  <2> QED BY <1>8, <1>12, <2>1, <2>2
<1>17. Reading' = Reading /\ Starting' = Starting BY <1>1, <1>5 DEF Reading, Starting
<1>18. Counted' BY <1>1, <1>17 DEF SessionInv, Counted
<1> QED BY <1>9, <1>10, <1>11, <1>14, <1>15, <1>16, <1>18 DEF SessionInv

\* The sinks of a session become L: they stay at its home.
LeadsTo(s, c) ==
  c \in sinks[s] \/ (sink[c] = "open" /\ \E w \in Workers : job[w].session = s /\ job[w].client = c)
OnlyRegistered ==
  /\ job' \in [Workers -> Job]
  /\ \A w \in Workers : /\ job'[w].session = job[w].session /\ job'[w].client = job[w].client
                        /\ job'[w].target = job[w].target
                        /\ \/ job'[w].at = job[w].at
                           \/ job[w].at = "register" /\ job'[w].at = "send"

LEMMA SinksMove ==
  ASSUME SessionInv, NEW s \in Sessions, NEW L \in SUBSET Clients, sinks' = [sinks EXCEPT ![s] = L],
         \A c \in L : LeadsTo(s, c), OnlyRegistered,
         UNCHANGED <<sink, address, stage, table, live>>
  PROVE SessionInv'
<1> USE DEF LeadsTo, OnlyRegistered
<1>1. sinks' \in [Sessions -> SUBSET Clients] /\ sinks'[s] = L /\ \A z \in Sessions \ {s} : sinks'[z] = sinks[z]
  BY DEF SessionInv, SessionType
<1>2. SessionType' BY <1>1 DEF SessionInv, SessionType
<1>3. JobIsHeld' BY DEF SessionInv, JobIsHeld
<1>4. OpenApart' BY DEF SessionInv, OpenApart
<1>5. SinkIsSeen' BY <1>1 DEF SessionInv, SinkIsSeen
<1>6. ASSUME NEW z \in Sessions PROVE \E a \in Addresses \cup {None} : Home(z, a)'
  <2>1. PICK a \in Addresses \cup {None} : Home(z, a) BY DEF SessionInv, HasHome
  <2>2. Home(z, a)' BY <1>1, <2>1 DEF Home
  <2> QED BY <2>2
<1>7. HasHome' BY <1>6 DEF HasHome
<1>8. NotStarted' BY DEF SessionInv, NotStarted
<1>9. NotMade' BY DEF SessionInv, NotMade
<1>10. Reading' = Reading /\ Starting' = Starting BY DEF Reading, Starting
<1>11. Counted' BY <1>10 DEF SessionInv, Counted
<1> QED BY <1>2, <1>3, <1>4, <1>5, <1>7, <1>8, <1>9, <1>11 DEF SessionInv

LEMMA RegisterSinkInv ==
  ASSUME SessionInv, Udp!SessionsAssumption, NEW w \in Workers, Udp!RegisterSink(w) PROVE SessionInv'
<1>1. /\ SessionType /\ job[w].at = "register" /\ Udp!Go(w, "send")
      /\ sinks' = [sinks EXCEPT ![job[w].session] = {c \in @ : sink[c] = "open"} \cup {job[w].client}]
      /\ UNCHANGED <<sink, address, stage, table, live>>
  BY DEF Udp!RegisterSink, Udp!At, SessionInv
<1>2. job[w].client \in Clients /\ sink[job[w].client] = "open" BY <1>1 DEF SessionInv, JobIsHeld
<1>3. PICK s \in Sessions : s = job[w].session BY <1>1 DEF SessionInv, JobIsHeld
<1>4. "send" \in Doing BY DEF Doing
<1>5. Shifted(w, "send", job[w].client, job[w].target, job[w].session) BY <1>1, <1>4, JobGoes
<1> DEFINE L == {c \in sinks[s] : sink[c] = "open"} \cup {job[w].client}
<1>6. L \in SUBSET Clients /\ sinks' = [sinks EXCEPT ![s] = L] BY <1>1, <1>2, <1>3 DEF SessionType
<1>7. \A c \in L : LeadsTo(s, c) BY <1>2, <1>3 DEF LeadsTo
<1> HIDE DEF L
<1>8. OnlyRegistered BY <1>1, <1>5 DEF Shifted, JobsStay, OnlyRegistered
<1>9. UNCHANGED <<sink, address, stage, table, live>> BY <1>1
<1> QED BY <1>6, <1>7, <1>8, <1>9, SinksMove

LEMMA SessionStill ==
  ASSUME SessionInv, UNCHANGED <<sink, address, stage, sinks, table, live, job>> PROVE SessionInv'
<1>1. SessionType' /\ JobIsHeld' /\ OpenApart' BY DEF SessionInv, SessionType, JobIsHeld, OpenApart
<1>2. HasHome' /\ SinkIsSeen' BY DEF SessionInv, HasHome, Home, SinkIsSeen
<1>3. NotStarted' /\ NotMade' BY DEF SessionInv, NotStarted, NotMade
<1>4. Counted' BY DEF SessionInv, Counted, Reading, Starting
<1> QED BY <1>1, <1>2, <1>3, <1>4 DEF SessionInv

LEMMA ReplyInv ==
  ASSUME SessionInv, NEW s \in Sessions, Udp!Reply(s) \/ Udp!SsReply(s) PROVE SessionInv'
<1>1. /\ UNCHANGED <<sink, address, stage, table, live, job>>
      /\ sinks' = [sinks EXCEPT ![s] = {x \in sinks[s] : sink[x] = "open"}] \/ UNCHANGED sinks
  BY DEF Udp!Reply, Udp!SsReply, Udp!Deliver
<1>2. CASE UNCHANGED sinks BY <1>1, <1>2, SessionStill
<1>3. CASE sinks' = [sinks EXCEPT ![s] = {x \in sinks[s] : sink[x] = "open"}]
  <2> DEFINE L == {x \in sinks[s] : sink[x] = "open"}
  <2>1. L \in SUBSET Clients /\ \A c \in L : LeadsTo(s, c) BY DEF SessionInv, SessionType, LeadsTo
  <2>2. OnlyRegistered BY <1>1 DEF SessionInv, SessionType, OnlyRegistered
  <2> HIDE DEF L
  <2>3. sinks' = [sinks EXCEPT ![s] = L] BY <1>3 DEF L
  <2> QED BY <1>1, <2>1, <2>2, <2>3, SinksMove
<1> QED BY <1>1, <1>2, <1>3

\* The reader of a session ends.
LEMMA ReaderInv ==
  ASSUME SessionInv, Udp!SessionsAssumption, NEW s \in Sessions,
         Udp!ReaderBreaks(s) \/ Udp!ReaderEnds(s) \/ Udp!DropGuard(s)
  PROVE SessionInv'
<1>1. PICK x \in {"deaf", "over", "ended"} :
        /\ stage[s] \in {"running", "deaf", "over"} /\ stage' = [stage EXCEPT ![s] = x]
        /\ live' = IF x = "ended" THEN live - 1 ELSE live
        /\ UNCHANGED <<sink, address, sinks, table, job>>
  BY DEF Udp!ReaderBreaks, Udp!ReaderEnds, Udp!DropGuard
<1>2. stage' \in [Sessions -> Udp!Stages] /\ stage'[s] = x /\ \A z \in Sessions \ {s} : stage'[z] = stage[z]
  BY <1>1 DEF SessionInv, SessionType, Udp!Stages
<1>3. SessionType' /\ JobIsHeld' /\ OpenApart' BY <1>1, <1>2 DEF SessionInv, SessionType, JobIsHeld, OpenApart
<1>4. HasHome' /\ SinkIsSeen' BY <1>1 DEF SessionInv, HasHome, Home, SinkIsSeen
<1>5. NotStarted'
  <2>1. \A v \in Workers : job[v].at \in {"count", "spawn"} => job[v].session # s /\ job[v].session \in Sessions
    BY <1>1 DEF SessionInv, NotStarted, JobIsHeld
  <2> QED BY <1>1, <1>2, <2>1 DEF SessionInv, NotStarted
<1>6. NotMade' BY <1>1, <1>2 DEF SessionInv, NotMade
<1>7. Starting' = Starting BY <1>1 DEF Starting
<1>8. Counted'
  <2>1. CASE x = "ended"
    <3>1. Reading' = Reading \ {s} /\ s \in Reading BY <1>1, <1>2, <2>1 DEF Reading
    <3>2. Cardinality(Reading') = Cardinality(Reading) - 1 BY <3>1, CountedAreFinite, FS_RemoveElement
    <3> QED BY <1>1, <1>7, <2>1, <3>2, CountedAreFinite DEF SessionInv, Counted
  <2>2. CASE x # "ended"
    <3>1. Reading' = Reading BY <1>1, <1>2, <2>2 DEF Reading
    <3> QED BY <1>1, <1>7, <2>2, <3>1 DEF SessionInv, Counted
  <2> QED BY <2>1, <2>2
<1> QED BY <1>3, <1>4, <1>5, <1>6, <1>8 DEF SessionInv

LEMMA OpenInv ==
  ASSUME SessionInv, Udp!SessionsAssumption, NEW c \in Clients, NEW a \in Addresses, Udp!Open(c, a) PROVE SessionInv'
<1>1. /\ sink[c] = "new" /\ ~Udp!Occupied(a)
      /\ sink' = [sink EXCEPT ![c] = "open"] /\ address' = [address EXCEPT ![c] = a]
      /\ UNCHANGED <<stage, sinks, table, live, job>>
  BY DEF Udp!Open, Udp!session
<1>2. /\ sink' \in [Clients -> {"new", "open", "dropped"}] /\ sink'[c] = "open"
      /\ address' \in [Clients -> Addresses \cup {None}] /\ address'[c] = a
      /\ \A d \in Clients \ {c} : sink'[d] = sink[d] /\ address'[d] = address[d]
  BY <1>1 DEF SessionInv, SessionType
<1>3. \A d \in Clients : sink[d] = "open" => address[d] # a BY <1>1 DEF Udp!Occupied
<1>4. SessionType' BY <1>1, <1>2 DEF SessionInv, SessionType
<1>5. JobIsHeld' BY <1>1, <1>2 DEF SessionInv, JobIsHeld
<1>6. OpenApart' BY <1>2, <1>3 DEF SessionInv, OpenApart
<1>7. SinkIsSeen'
  <2>1. \A s \in Sessions : sinks[s] \subseteq Clients BY DEF SessionInv, SessionType
  <2> QED BY <1>1, <1>2, <2>1 DEF SessionInv, SinkIsSeen
<1>8. ASSUME NEW z \in Sessions PROVE \E b \in Addresses \cup {None} : Home(z, b)'
  <2>1. PICK b \in Addresses \cup {None} : Home(z, b) BY DEF SessionInv, HasHome
  <2>2. \A d \in sinks[z] : d \in Clients \ {c} BY <1>1 DEF SessionInv, SinkIsSeen, SessionType
  <2>3. ASSUME NEW w \in Workers, job[w].session = z PROVE job[w].client \in Clients \ {c}
    <3>1. job[w].at # "idle" BY <2>3 DEF SessionInv, JobIsHeld, Udp!SessionsAssumption
    <3> QED BY <1>1, <3>1 DEF SessionInv, JobIsHeld
  <2>4. Home(z, b)' BY <1>1, <1>2, <2>1, <2>2, <2>3 DEF Home
  <2> QED BY <2>4
<1>9. HasHome' BY <1>8 DEF HasHome
<1>10. NotStarted' /\ NotMade' BY <1>1 DEF SessionInv, NotStarted, NotMade
<1>11. Counted' BY <1>1 DEF SessionInv, Counted, Reading, Starting
<1> QED BY <1>4, <1>5, <1>6, <1>7, <1>9, <1>10, <1>11 DEF SessionInv

LEMMA DropInv ==
  ASSUME SessionInv, NEW c \in Clients, Udp!Drop(c) PROVE SessionInv'
<1>1. /\ \A w \in Workers : job[w].client # c
      /\ sink' = [sink EXCEPT ![c] = "dropped"]
      /\ UNCHANGED <<address, stage, sinks, table, live, job>>
  BY DEF Udp!Drop, Udp!session
<1>2. /\ sink' \in [Clients -> {"new", "open", "dropped"}] /\ sink'[c] = "dropped"
      /\ \A d \in Clients \ {c} : sink'[d] = sink[d]
  BY <1>1 DEF SessionInv, SessionType
<1>3. SessionType' /\ JobIsHeld' BY <1>1, <1>2 DEF SessionInv, SessionType, JobIsHeld
<1>4. OpenApart' BY <1>1, <1>2 DEF SessionInv, OpenApart
<1>5. SinkIsSeen'
  <2>1. \A s \in Sessions : sinks[s] \subseteq Clients BY DEF SessionInv, SessionType
  <2> QED BY <1>1, <1>2, <2>1 DEF SessionInv, SinkIsSeen
<1>6. HasHome' BY <1>1 DEF SessionInv, HasHome, Home
<1>7. NotStarted' /\ NotMade' BY <1>1 DEF SessionInv, NotStarted, NotMade
<1>8. Counted' BY <1>1 DEF SessionInv, Counted, Reading, Starting
<1> QED BY <1>3, <1>4, <1>5, <1>6, <1>7, <1>8 DEF SessionInv

LEMMA SessionNext ==
  ASSUME SessionInv, Udp!SessionsAssumption, [Udp!Next]_(Udp!vars) PROVE SessionInv'
<1>1. CASE UNCHANGED Udp!vars BY <1>1, SessionStill DEF Udp!vars
<1>2. ASSUME NEW c \in Clients, Udp!Drop(c) PROVE SessionInv' BY <1>2, DropInv
<1>3. ASSUME NEW c \in Clients, NEW a \in Addresses, Udp!Open(c, a) PROVE SessionInv' BY <1>3, OpenInv
<1>4. ASSUME NEW w \in Workers, NEW c \in Clients, NEW t \in Targets, Udp!Submit(w, c, t) PROVE SessionInv'
  BY <1>4, SubmitInv
<1>5. ASSUME NEW w \in Workers, Udp!UdpSession(w) PROVE SessionInv'
  BY <1>5, LookupInv, CheckLimitInv, BindInv, CountSessionInv, SpawnInv, SpawnFailsInv, InsertInv
     DEF Udp!UdpSession
<1>6. ASSUME NEW w \in Workers, Udp!RegisterSink(w) PROVE SessionInv' BY <1>6, RegisterSinkInv
<1>7. ASSUME NEW w \in Workers, Udp!Send(w) \/ Udp!SsSend(w) PROVE SessionInv' BY <1>7, SendInv
<1>8. ASSUME NEW s \in Sessions, Udp!Reply(s) \/ Udp!SsReply(s) PROVE SessionInv' BY <1>8, ReplyInv
<1>9. ASSUME NEW s \in Sessions, Udp!ReaderBreaks(s) \/ Udp!ReaderEnds(s) \/ Udp!DropGuard(s)
      PROVE SessionInv'
  BY <1>9, ReaderInv
<1> QED BY <1>1, <1>2, <1>3, <1>4, <1>5, <1>6, <1>7, <1>8, <1>9 DEF Udp!Next

LEMMA SessionInit == ASSUME Udp!SessionsAssumption, Udp!Init PROVE SessionInv
<1>1. Udp!Idle \in Job /\ Udp!Idle.at = "idle" /\ Udp!Idle.session = None BY DEF Udp!Idle, Job, Doing
<1>2. \A w \in Workers : job[w] = Udp!Idle BY DEF Udp!Init
<1>3. SessionType BY <1>1 DEF Udp!Init, SessionType, Udp!Stages, Udp!TableKeys
<1>4. JobIsHeld /\ OpenApart /\ SinkIsSeen BY <1>1, <1>2 DEF Udp!Init, JobIsHeld, OpenApart, SinkIsSeen
<1>5. HasHome
  <2> SUFFICES ASSUME NEW s \in Sessions PROVE Home(s, None) BY DEF HasHome
  <2>1. s # None BY DEF Udp!SessionsAssumption
  <2> QED BY <1>1, <1>2, <2>1 DEF Udp!Init, Home, Udp!TableKeys
<1>6. NotStarted BY <1>1, <1>2 DEF NotStarted
<1>7. NotMade BY <1>1, <1>2 DEF NotMade, Udp!Init, Udp!TableKeys, Udp!SessionsAssumption
<1>8. Reading = {} /\ Starting = {} BY <1>1, <1>2 DEF Reading, Starting, Udp!Init
<1>9. Counted BY <1>8, FS_EmptySet DEF Counted, Udp!Init
<1> QED BY <1>3, <1>4, <1>5, <1>6, <1>7, <1>9 DEF SessionInv

LEMMA SessionSafe == ASSUME Udp!SessionsAssumption, SessionInv PROVE Udp!AnswersAreOwn
<1>1. Udp!CountIsExact
  <2>1. live = Cardinality(Reading) + Cardinality(Starting) BY DEF SessionInv, Counted
  <2> QED BY <2>1, SessionsCardinality DEF Udp!CountIsExact, Reading, Starting, Udp!At
<1>2. ASSUME NEW s \in Sessions PROVE Udp!Cardinality({c \in sinks[s] : sink[c] = "open"}) <= 1
  <2> DEFINE L == {c \in sinks[s] : sink[c] = "open"}
  <2>1. PICK a \in Addresses \cup {None} : Home(s, a) BY DEF SessionInv, HasHome
  <2>2. \A c, d \in L : c = d BY <2>1 DEF Home, SessionInv, SessionType, OpenApart
  <2>3. CASE L = {} BY <2>3, FS_EmptySet, SessionsCardinality
  <2>4. CASE L # {}
    <3>1. PICK c : L = {c} BY <2>2, <2>4
    <3>2. Cardinality({c}) = 1 BY FS_Singleton
    <3> QED BY <3>1, <3>2, SessionsCardinality
  <2> QED BY <2>3, <2>4
<1> QED BY <1>1, <1>2 DEF Udp!AnswersAreOwn, Udp!NotShared

\* Whatever workers race to make a session, addresses of ended associations are
\* used again and late inserts replace a live session: no session of DIRECT or
\* Shadowsocks ever answers two open associations, and the counter that refuses
\* new flows is the number of reader threads (udp_session, register_sink and
\* LiveSessionGuard).
THEOREM SessionHasOneOwner ==
  ASSUME Udp!SessionsAssumption PROVE Udp!Spec => []Udp!AnswersAreOwn
<1>1. Udp!Init => SessionInv BY SessionInit
<1>2. SessionInv /\ [Udp!Next]_(Udp!vars) => SessionInv' BY SessionNext
<1>3. SessionInv => Udp!AnswersAreOwn BY SessionSafe
<1> QED BY <1>1, <1>2, <1>3, PTL DEF Udp!Spec

(***************************************************************************)
(* Providers                                                               *)
(***************************************************************************)

Registry == INSTANCE Providers

RegistryType ==
  /\ conf \subseteq Leaves \cup Groups
  /\ registry \subseteq Registry!Tags
  /\ tags \subseteq Nodes /\ nodes \subseteq Nodes /\ remote \subseteq Nodes
  /\ rtodo \subseteq Registry!Tags /\ rtags \subseteq Nodes /\ ucur \subseteq Nodes
  /\ cache = NoCache \/ cache \subseteq Nodes
  /\ rpc = "nodes" => rtodo \subseteq Nodes

\* How far a reload that runs alone has come: what is in the registry with what
\* its loop still has to insert.
ReloadStands ==
  /\ rpc = "provClear" => registry = {}
  /\ rpc = "leaves" => registry \cup rtodo = conf \cap Leaves
  /\ rpc \in {"load", "snap"} => registry = conf \cap Leaves /\ rtags = {}
  /\ rpc = "leaves" => rtags = {}
  /\ rpc = "nodes" => registry \cup rtodo = (conf \cap Leaves) \cup nodes /\ rtags \cup rtodo = nodes
  /\ rpc = "groups" => registry \cup rtodo = conf \cup nodes /\ rtags = nodes
  /\ rpc = "tags" => registry = conf \cup nodes /\ rtags = nodes

\* A refresh that runs alone has changed the nodes and nothing else.
RefreshStands ==
  /\ rpc = "idle" /\ result # "err" => registry = conf \cup tags
  /\ rpc = "idle" /\ result # "err" /\ upc = "idle" => tags = nodes
  /\ upc = "sync" => ucur = nodes

RegistryInv ==
  /\ RegistryType
  /\ ~crossed => (rpc = "idle" \/ upc = "idle") /\ ReloadStands /\ RefreshStands

\* A subscription's content is made of nodes.
LEMMA ContentIsNodes ==
  ASSUME RegistryType
  PROVE Registry!Content \subseteq Nodes /\ (Registry!CacheAfterLoad = NoCache \/ Registry!CacheAfterLoad \subseteq Nodes)
BY DEF RegistryType, Registry!Content, Registry!CacheAfterLoad

LEMMA RegistryTyped ==
  ASSUME Registry!ProvidersAssumption, RegistryInv, [Registry!Next]_(Registry!vars)
  PROVE RegistryType'
<1> USE DEF RegistryType, RegistryInv
<1>1. CASE Registry!Refresh
  <2>1. CASE Registry!RefreshUpdate
    BY <2>1, ContentIsNodes DEF Registry!RefreshUpdate, Registry!ruVars
  <2>2. CASE Registry!RefreshSync BY <2>2 DEF Registry!RefreshSync, Registry!ruVars, Registry!Tags
  <2>3. CASE Registry!RefreshBegin BY <2>3 DEF Registry!RefreshBegin
  <2>4. CASE Registry!RefreshNothing BY <2>4 DEF Registry!RefreshNothing
  <2>5. CASE Registry!RefreshSnap BY <2>5 DEF Registry!RefreshSnap
  <2> QED BY <1>1, <2>1, <2>2, <2>3, <2>4, <2>5 DEF Registry!Refresh
<1>2. CASE Registry!Reload
  <2>1. CASE Registry!ReloadBegin BY <2>1 DEF Registry!ReloadBegin
  <2>2. CASE Registry!ReloadClear BY <2>2 DEF Registry!ReloadClear
  <2>3. CASE Registry!ReloadProvClear BY <2>3 DEF Registry!ReloadProvClear, Registry!Tags
  <2>4. CASE Registry!ReloadLeaves BY <2>4 DEF Registry!ReloadLeaves, Registry!Insert
  <2>5. CASE Registry!ReloadLoad BY <2>5, ContentIsNodes DEF Registry!ReloadLoad
  <2>6. CASE Registry!ReloadSnap BY <2>6 DEF Registry!ReloadSnap, Registry!Tags
  <2>7. CASE Registry!ReloadNodes BY <2>7 DEF Registry!ReloadNodes, Registry!Insert, Registry!Tags
  <2>8. CASE Registry!ReloadGroups BY <2>8 DEF Registry!ReloadGroups, Registry!Insert
  <2>9. CASE Registry!ReloadTags BY <2>9 DEF Registry!ReloadTags
  <2>10. CASE Registry!ReloadError BY <2>10 DEF Registry!ReloadError
  <2> QED BY <1>2, <2>1, <2>2, <2>3, <2>4, <2>5, <2>6, <2>7, <2>8, <2>9, <2>10 DEF Registry!Reload
<1>3. CASE Registry!RemoteChange BY <1>3 DEF Registry!RemoteChange
<1>4. CASE UNCHANGED Registry!vars BY <1>4 DEF Registry!vars
<1> QED BY <1>1, <1>2, <1>3, <1>4 DEF Registry!Next

LEMMA RegistryStands ==
  ASSUME Registry!ProvidersAssumption, RegistryInv, [Registry!Next]_(Registry!vars), ~crossed'
  PROVE (rpc = "idle" \/ upc = "idle")' /\ ReloadStands' /\ RefreshStands'
<1>0. RegistryType /\ (~crossed => (rpc = "idle" \/ upc = "idle") /\ ReloadStands /\ RefreshStands)
  BY DEF RegistryInv
<1> USE DEF ReloadStands, RefreshStands
<1>1. CASE Registry!Refresh
  <2>1. CASE Registry!RefreshUpdate BY <1>0, <2>1 DEF Registry!RefreshUpdate, Registry!ruVars
  <2>2. CASE Registry!RefreshSync
    <3>1. conf \cap Nodes = {} /\ tags \subseteq Nodes
      BY <1>0 DEF RegistryType, Registry!ProvidersAssumption
    <3> QED BY <1>0, <2>2, <3>1 DEF Registry!RefreshSync, Registry!ruVars, Registry!hist
  <2>3. CASE Registry!RefreshBegin BY <1>0, <2>3 DEF Registry!RefreshBegin
  <2>4. CASE Registry!RefreshNothing BY <1>0, <2>4 DEF Registry!RefreshNothing, Registry!hist
  <2>5. CASE Registry!RefreshSnap BY <1>0, <2>5 DEF Registry!RefreshSnap, Registry!hist
  <2> QED BY <1>1, <2>1, <2>2, <2>3, <2>4, <2>5 DEF Registry!Refresh
<1>2. CASE Registry!Reload
  <2>1. CASE Registry!ReloadBegin BY <1>0, <2>1 DEF Registry!ReloadBegin
  <2>2. CASE Registry!ReloadClear BY <1>0, <2>2 DEF Registry!ReloadClear, Registry!hist
  <2>3. CASE Registry!ReloadProvClear BY <1>0, <2>3 DEF Registry!ReloadProvClear, Registry!hist
  <2>4. CASE Registry!ReloadLeaves
    BY <1>0, <2>4 DEF Registry!ReloadLeaves, Registry!Insert, Registry!hist
  <2>5. CASE Registry!ReloadLoad BY <1>0, <2>5 DEF Registry!ReloadLoad, Registry!hist
  <2>6. CASE Registry!ReloadSnap BY <1>0, <2>6 DEF Registry!ReloadSnap, Registry!hist
  <2>7. CASE Registry!ReloadNodes
    <3>1. conf = (conf \cap Leaves) \cup (conf \cap Groups) BY <1>0 DEF RegistryType
    <3> QED BY <1>0, <2>7, <3>1 DEF Registry!ReloadNodes, Registry!Insert, Registry!hist
  <2>8. CASE Registry!ReloadGroups
    BY <1>0, <2>8 DEF Registry!ReloadGroups, Registry!Insert, Registry!hist
  <2>9. CASE Registry!ReloadTags BY <1>0, <2>9 DEF Registry!ReloadTags
  <2>10. CASE Registry!ReloadError BY <1>0, <2>10 DEF Registry!ReloadError
  <2> QED BY <1>2, <2>1, <2>2, <2>3, <2>4, <2>5, <2>6, <2>7, <2>8, <2>9, <2>10 DEF Registry!Reload
<1>3. CASE Registry!RemoteChange BY <1>0, <1>3 DEF Registry!RemoteChange, Registry!hist
<1>4. CASE UNCHANGED Registry!vars BY <1>0, <1>4 DEF Registry!vars, Registry!hist
<1> QED BY <1>1, <1>2, <1>3, <1>4 DEF Registry!Next

LEMMA RegistryInit == ASSUME Registry!Init PROVE RegistryInv
<1>1. RegistryType BY DEF Registry!Init, RegistryType, Registry!Tags
<1>2. ReloadStands /\ RefreshStands BY DEF Registry!Init, ReloadStands, RefreshStands
<1> QED BY <1>1, <1>2 DEF RegistryInv, Registry!Init

\* For every profile and subscription, and whatever the URL serves meanwhile:
\* after reloads and refreshes that did not overlap, the last of which did not
\* fail, the registry is exactly the tags of the profile and the nodes of the
\* provider, and provider_tags knows which entries the next sync may remove
\* (OutboundManager::reload and sync_provider_proxies in src/engine/outbound.rs).
THEOREM RegistryAlwaysExact ==
  ASSUME Registry!ProvidersAssumption PROVE Registry!Spec => []Registry!RegistryExact
<1>1. Registry!Init => RegistryInv BY RegistryInit
<1>2. RegistryInv /\ [Registry!Next]_(Registry!vars) => RegistryInv'
  BY RegistryTyped, RegistryStands DEF RegistryInv
<1>3. RegistryInv => Registry!RegistryExact
  BY DEF RegistryInv, RefreshStands, Registry!RegistryExact, Registry!Quiet
<1> QED BY <1>1, <1>2, <1>3, PTL DEF Registry!Spec

\* Whatever reloads and refreshes overlap, and after a reload that failed, a
\* sync takes nothing of the profile out of the registry and registers every
\* node it has seen (sync_provider_proxies in src/engine/outbound.rs).
THEOREM SyncNeverTakesProfile ==
  ASSUME Registry!ProvidersAssumption PROVE Registry!Spec => Registry!SyncSparesProfile
<1>1. Registry!Init => RegistryInv BY RegistryInit
<1>2. RegistryInv /\ [Registry!Next]_(Registry!vars) => RegistryInv'
  BY RegistryTyped, RegistryStands DEF RegistryInv
<1>3. RegistryInv /\ [Registry!Next]_(Registry!vars)
        => [Registry!RefreshSync => /\ registry \cap conf \subseteq registry'
                                    /\ ucur \subseteq registry']_(Registry!vars)
  BY DEF RegistryInv, RegistryType, Registry!RefreshSync, Registry!ProvidersAssumption
<1> QED BY <1>1, <1>2, <1>3, PTL DEF Registry!Spec, Registry!SyncSparesProfile

(***************************************************************************)
(* ProviderContent                                                         *)
(***************************************************************************)

Content == INSTANCE ProviderContent WITH Threads <- Loaders

ContentPlaces ==
  {"idle", "alive", "clear", "providers", "check", "nodes", "fetch", "leave", "parse",
   "configs", "index", "proxies", "stamp", "probe", "results", "filter"}

ContentType ==
  /\ lock \in [Content!Locks -> [w : Loaders \cup {None}, r : SUBSET Loaders, wait : SUBSET Loaders]]
  /\ thread \in [Loaders -> [at : ContentPlaces, op : Content!Ops \cup {None},
                             doc : Documents \cup {None}]]
  /\ {cached, configs, proxies} \subseteq Documents \cup {None}

\* The guard on the configs is held from their write to the stamp, the one on
\* the proxies from theirs; the holder's document is what it has written.
LoadHolds ==
  /\ \A t \in Loaders : lock["configs"].w = t <=> thread[t].at \in {"proxies", "stamp"}
  /\ \A t \in Loaders : lock["proxies"].w = t <=> thread[t].at = "stamp"
  /\ \A t \in Loaders : thread[t].at # "index"
  /\ \A t \in Loaders : thread[t].at \in {"proxies", "stamp"} => configs = thread[t].doc
  /\ \A t \in Loaders : thread[t].at = "stamp" => proxies = thread[t].doc

ContentInv ==
  /\ ContentType
  /\ kind # "rule" => LoadHolds /\ (lock["configs"].w = None => configs = proxies)

\* What a step of the locks does to their writers.
LEMMA ReadersLeaveWriters ==
  ASSUME ContentType, NEW t \in Loaders, NEW l \in Content!Locks
  PROVE /\ Content!Reading(t, l) \in [Content!Locks -> [w : Loaders \cup {None}, r : SUBSET Loaders, wait : SUBSET Loaders]]
        /\ Content!Asking(t, l) \in [Content!Locks -> [w : Loaders \cup {None}, r : SUBSET Loaders, wait : SUBSET Loaders]]
        /\ \A k \in Content!Locks : Content!Reading(t, l)[k].w = lock[k].w /\ Content!Asking(t, l)[k].w = lock[k].w
BY DEF ContentType, Content!Reading, Content!Asking

LEMMA FreeingWriters ==
  ASSUME ContentType, NEW t \in Loaders, NEW held \in SUBSET Content!Locks
  PROVE /\ Content!Free(t, held) \in [Content!Locks -> [w : Loaders \cup {None}, r : SUBSET Loaders, wait : SUBSET Loaders]]
        /\ \A k \in Content!Locks : Content!Free(t, held)[k].w =
             IF k \in held /\ lock[k].w = t THEN None ELSE lock[k].w
BY DEF ContentType, Content!Free

LEMMA LocksAreFour == {"providers", "configs", "proxies", "health"} = Content!Locks
BY DEF Content!Locks

\* A step that leaves the document, the configs, the proxies and both guards
\* alone, and takes its thread neither into nor out of a load's two writes.
LEMMA AsideOfTheLoad ==
  ASSUME ContentInv, NEW t \in Loaders, NEW p \in ContentPlaces,
         ContentType',
         thread[t].at \notin {"proxies", "stamp"}, p \notin {"proxies", "stamp", "index"},
         thread'[t].at = p, \A s \in Loaders \ {t} : thread'[s] = thread[s],
         lock'["configs"].w = lock["configs"].w, lock'["proxies"].w = lock["proxies"].w,
         UNCHANGED <<kind, configs, proxies>>
  PROVE ContentInv'
<1>1. SUFFICES ASSUME kind # "rule"
      PROVE LoadHolds' /\ (lock'["configs"].w = None => configs' = proxies')
  BY DEF ContentInv
<1>2. LoadHolds /\ (lock["configs"].w = None => configs = proxies) BY <1>1 DEF ContentInv
<1>3. LoadHolds' BY <1>2 DEF LoadHolds
<1> QED BY <1>2, <1>3

LEMMA ContentStart ==
  ASSUME Content!ContentAssumption, Content!Init
  PROVE ContentInv
<1> USE DEF Content!ContentAssumption, Content!Init
<1>1. ContentType
  BY DEF ContentType, ContentPlaces, Content!Idle, Content!Locks, Content!Ops
<1>2. LoadHolds BY DEF LoadHolds, Content!Idle, Content!Locks
<1> QED BY <1>1, <1>2 DEF ContentInv

LEMMA ContentTyped ==
  ASSUME Content!ContentAssumption, ContentInv, NEW t \in Loaders,
         Content!Work(t) \/ \E op \in Content!Ops : Content!Begin(t, op)
  PROVE ContentType'
<1> DEFINE LockType == [w : Loaders \cup {None}, r : SUBSET Loaders, wait : SUBSET Loaders]
<1>0. ContentType BY DEF ContentInv
<1>1. \A l \in Content!Locks : Content!Reading(t, l) \in [Content!Locks -> LockType]
                               /\ Content!Asking(t, l) \in [Content!Locks -> LockType]
  BY <1>0, ReadersLeaveWriters
<1>2. \A held \in SUBSET Content!Locks : Content!Free(t, held) \in [Content!Locks -> LockType]
  BY <1>0, FreeingWriters
<1>3. \A l \in Content!Locks : Content!Writing(t, l) \in [Content!Locks -> LockType]
  BY <1>0 DEF ContentType, Content!Writing
<1>4. /\ "providers" \in Content!Locks /\ "configs" \in Content!Locks
      /\ "proxies" \in Content!Locks /\ "health" \in Content!Locks
  BY LocksAreFour
<1>4a. \A p \in ContentPlaces : Content!Go(t, p) =>
         thread' \in [Loaders -> [at : ContentPlaces, op : Content!Ops \cup {None}, doc : Documents \cup {None}]]
  BY <1>0 DEF ContentType, Content!Go
<1>4b. ASSUME NEW d \in Documents, NEW keep, Content!Fetched(t, d, keep)
       PROVE /\ thread' \in [Loaders -> [at : ContentPlaces, op : Content!Ops \cup {None}, doc : Documents \cup {None}]]
             /\ cached' \in Documents \cup {None}
  <2>1. thread' = [thread EXCEPT ![t].doc = d, ![t].at = "parse"] BY <1>4b DEF Content!Fetched
  <2>2. thread' \in [Loaders -> [at : ContentPlaces, op : Content!Ops \cup {None}, doc : Documents \cup {None}]]
    BY <1>0, <2>1 DEF ContentType, ContentPlaces
  <2> QED BY <1>0, <1>4b, <2>2 DEF ContentType, Content!Fetched
<1>4c. thread[t].doc \in Documents \cup {None} BY <1>0 DEF ContentType
<1>5. ASSUME NEW op \in Content!Ops, Content!Begin(t, op) PROVE ContentType'
  BY <1>0, <1>1, <1>4, <1>5 DEF Content!Begin, ContentType, ContentPlaces, Content!content
<1>6. CASE Content!Providers(t)
  BY <1>0, <1>4a, <1>1, <1>4, <1>6 DEF Content!Providers, ContentType, ContentPlaces,
     Content!content
<1>7. CASE Content!Clear(t)
  BY <1>0, <1>4a, <1>3, <1>4, <1>7 DEF Content!Clear, ContentType, ContentPlaces
<1>8. CASE Content!Leave(t)
  BY <1>0, <1>2, <1>4, <1>8 DEF Content!Leave, ContentType, ContentPlaces, Content!content,
     Content!Idle
<1>9. CASE Content!FetchProxies(t)
  BY <1>0, <1>4a, <1>4b, <1>9 DEF Content!FetchProxies, ContentType, ContentPlaces
<1>10. CASE Content!FetchRules(t)
  BY <1>0, <1>4a, <1>4b, <1>10 DEF Content!FetchRules, Content!ReadCachedOrError, ContentType,
     ContentPlaces
<1>11. CASE Content!ParseProxies(t)
  BY <1>0, <1>4a, <1>1, <1>4, <1>11 DEF Content!ParseProxies, ContentType, ContentPlaces,
     Content!content
<1>12. CASE Content!ParseRules(t)
  BY <1>0, <1>4a, <1>1, <1>4, <1>12 DEF Content!ParseRules, ContentType, ContentPlaces,
     Content!content
<1>13. CASE Content!WriteIndex(t)
  BY <1>0, <1>4a, <1>4, <1>13 DEF Content!WriteIndex, ContentType, ContentPlaces
<1>14. CASE Content!WriteConfigs(t)
  <2>1. Content!Writing(t, "configs") \in [Content!Locks -> LockType] BY <1>3, <1>4
  <2>2. lock' \in [Content!Locks -> LockType]
    BY <1>4, <1>14, <2>1 DEF Content!WriteConfigs
  <2> QED BY <1>0, <1>4a, <1>4c, <1>14, <2>2 DEF Content!WriteConfigs, ContentType, ContentPlaces
<1>15. CASE Content!WriteProxies(t)
  BY <1>0, <1>4a, <1>3, <1>4, <1>15 DEF Content!WriteProxies, ContentType, ContentPlaces
<1>16. CASE Content!Stamp(t)
  BY <1>0, <1>4a, <1>2, <1>4, <1>16 DEF Content!Stamp, ContentType, ContentPlaces
<1>17. CASE Content!Check(t)
  BY <1>0, <1>1, <1>4, <1>17 DEF Content!Check, ContentType, ContentPlaces, Content!content
<1>18. CASE Content!Probe(t)
  BY <1>0, <1>4a, <1>1, <1>4, <1>18 DEF Content!Probe, ContentType, ContentPlaces, Content!content
<1>19. CASE Content!Results(t)
  <2>1. Content!Free(t, {"proxies"}) \in [Content!Locks -> LockType] BY <1>2, <1>4
  <2>2. lock' \in [Content!Locks -> LockType]
    BY <1>4, <1>19, <2>1 DEF Content!Results
  <2> QED BY <1>0, <1>4a, <1>19, <2>2 DEF Content!Results, ContentType, ContentPlaces
<1>20. CASE Content!Nodes(t)
  BY <1>0, <1>4a, <1>20 DEF Content!Nodes, ContentType, ContentPlaces, Content!content
<1>21. CASE Content!Alive(t)
  BY <1>0, <1>4a, <1>1, <1>2, <1>4, <1>21 DEF Content!Alive, ContentType, ContentPlaces,
     Content!content
<1> QED
  BY <1>5, <1>6, <1>7, <1>8, <1>9, <1>10, <1>11, <1>12, <1>13, <1>14, <1>15, <1>16, <1>17, <1>18,
     <1>19, <1>20, <1>21 DEF Content!Work

LEMMA ContentKept ==
  ASSUME Content!ContentAssumption, ContentInv, NEW t \in Loaders,
         Content!Work(t) \/ \E op \in Content!Ops : Content!Begin(t, op)
  PROVE ContentInv'
<1>0. ContentType BY DEF ContentInv
<1>1. ContentType' BY ContentTyped
<1>2. \A l \in Content!Locks : /\ Content!Reading(t, l)["configs"].w = lock["configs"].w
                               /\ Content!Reading(t, l)["proxies"].w = lock["proxies"].w
                               /\ Content!Asking(t, l)["configs"].w = lock["configs"].w
                               /\ Content!Asking(t, l)["proxies"].w = lock["proxies"].w
  BY <1>0, ReadersLeaveWriters, LocksAreFour
<1>3. \A held \in SUBSET Content!Locks :
        /\ Content!Free(t, held)["configs"].w =
             IF "configs" \in held /\ lock["configs"].w = t THEN None ELSE lock["configs"].w
        /\ Content!Free(t, held)["proxies"].w =
             IF "proxies" \in held /\ lock["proxies"].w = t THEN None ELSE lock["proxies"].w
  BY <1>0, FreeingWriters, LocksAreFour
<1>4. /\ "providers" \in Content!Locks /\ "configs" \in Content!Locks
      /\ "proxies" \in Content!Locks /\ "health" \in Content!Locks
  BY LocksAreFour
<1>5. \A p \in ContentPlaces : Content!Go(t, p) =>
        /\ thread'[t].at = p /\ thread'[t].doc = thread[t].doc
        /\ \A s \in Loaders \ {t} : thread'[s] = thread[s]
  BY <1>0 DEF ContentType, Content!Go
<1>6. ASSUME NEW p \in ContentPlaces, p \notin {"proxies", "stamp", "index"},
             thread'[t].at = p, \A s \in Loaders \ {t} : thread'[s] = thread[s],
             ~Content!At(t, "proxies"), ~Content!At(t, "stamp"),
             lock'["configs"].w = lock["configs"].w, lock'["proxies"].w = lock["proxies"].w,
             UNCHANGED <<kind, configs, proxies>>
      PROVE ContentInv'
  BY <1>1, <1>6, AsideOfTheLoad DEF Content!At
<1> DEFINE LoadThen == LoadHolds /\ (lock["configs"].w = None => configs = proxies)
<1>7. ASSUME kind = "rule", kind' = "rule" PROVE ContentInv'
  BY <1>1, <1>7 DEF ContentInv
<1>8. kind # "rule" => LoadThen BY DEF ContentInv
<1>9. CASE Content!WriteConfigs(t)
  <2>1. SUFFICES ASSUME kind # "rule" PROVE ContentInv'
    BY <1>7, <1>9 DEF Content!WriteConfigs
  <2>2. LoadThen BY <1>8, <2>1
  <2>3. lock'["configs"].w = t /\ lock'["proxies"].w = lock["proxies"].w /\ lock["configs"].w = None
    BY <1>0, <1>4, <1>9 DEF Content!WriteConfigs, Content!Writing, Content!MayWrite, ContentType
  <2>4. /\ thread'[t].at = "proxies" /\ thread'[t].doc = thread[t].doc /\ thread[t].at = "configs"
        /\ \A s \in Loaders \ {t} : thread'[s] = thread[s]
    BY <1>5, <1>9 DEF Content!WriteConfigs, Content!At, ContentPlaces
  <2>5. configs' = thread[t].doc /\ proxies' = proxies BY <1>9 DEF Content!WriteConfigs
  <2>6. \A s \in Loaders : thread[s].at \notin {"proxies", "stamp"}
    BY <2>2, <2>3 DEF LoadHolds, Content!ContentAssumption
  <2>7. LoadHolds' BY <2>2, <2>3, <2>4, <2>5, <2>6 DEF LoadHolds
  <2> QED BY <1>1, <2>3, <2>7 DEF ContentInv, Content!ContentAssumption
<1>10. CASE Content!WriteProxies(t)
  <2>1. SUFFICES ASSUME kind # "rule" PROVE ContentInv'
    BY <1>7, <1>10 DEF Content!WriteProxies
  <2>2. LoadThen BY <1>8, <2>1
  <2>3. lock'["proxies"].w = t /\ lock'["configs"].w = lock["configs"].w /\ lock["proxies"].w = None
    BY <1>0, <1>4, <1>10 DEF Content!WriteProxies, Content!Writing, Content!MayWrite, ContentType
  <2>4. /\ thread'[t].at = "stamp" /\ thread'[t].doc = thread[t].doc /\ thread[t].at = "proxies"
        /\ \A s \in Loaders \ {t} : thread'[s] = thread[s]
    BY <1>5, <1>10 DEF Content!WriteProxies, Content!At, ContentPlaces
  <2>5. proxies' = thread[t].doc /\ configs' = configs BY <1>10 DEF Content!WriteProxies
  <2>6. lock["configs"].w = t /\ \A s \in Loaders : thread[s].at # "stamp"
    BY <2>2, <2>3, <2>4 DEF LoadHolds, Content!ContentAssumption
  <2>7. LoadHolds' BY <2>2, <2>3, <2>4, <2>5, <2>6 DEF LoadHolds
  <2> QED BY <1>1, <2>3, <2>6, <2>7 DEF ContentInv, Content!ContentAssumption
<1>11. CASE Content!Stamp(t)
  <2>1. SUFFICES ASSUME kind # "rule" PROVE ContentInv'
    BY <1>7, <1>11 DEF Content!Stamp
  <2>2. LoadThen BY <1>8, <2>1
  <2>3. lock["configs"].w = t /\ lock["proxies"].w = t
    BY <1>11, <2>2 DEF Content!Stamp, Content!At, LoadHolds
  <2>4. lock'["configs"].w = None /\ lock'["proxies"].w = None
    BY <1>3, <1>4, <1>11, <2>3 DEF Content!Stamp
  <2>5. /\ thread'[t].at = "leave" /\ thread[t].at = "stamp"
        /\ \A s \in Loaders \ {t} : thread'[s] = thread[s]
    BY <1>5, <1>11 DEF Content!Stamp, Content!At, ContentPlaces
  <2>6. UNCHANGED <<configs, proxies>> BY <1>11 DEF Content!Stamp
  <2>7. LoadHolds' BY <2>2, <2>3, <2>4, <2>5, <2>6 DEF LoadHolds, Content!ContentAssumption
  <2>8. configs = proxies BY <2>2, <2>5 DEF LoadHolds
  <2> QED BY <1>1, <2>6, <2>7, <2>8 DEF ContentInv
<1>12. CASE Content!WriteIndex(t)
  BY <1>7, <1>8, <1>12 DEF Content!WriteIndex, Content!At, LoadHolds
<1>13. CASE Content!ParseRules(t) BY <1>7, <1>13 DEF Content!ParseRules
<1>14. CASE Content!FetchRules(t) BY <1>7, <1>14 DEF Content!FetchRules
<1>15. ASSUME NEW op \in Content!Ops, Content!Begin(t, op) PROVE ContentInv'
  <2>1. PICK p \in {"alive", "clear", "providers"} :
          thread' = [thread EXCEPT ![t] = [at |-> p, op |-> op, doc |-> None]]
    BY <1>15 DEF Content!Begin
  <2>2. thread'[t].at = p /\ \A s \in Loaders \ {t} : thread'[s] = thread[s]
    BY <1>0, <2>1 DEF ContentType
  <2> QED
    BY <1>2, <1>4, <1>6, <1>15, <2>2 DEF Content!Begin, Content!At, Content!content, ContentPlaces
<1>16. CASE Content!Providers(t)
  <2>1. PICK p \in {"check", "nodes", "fetch", "leave"} : Content!Go(t, p)
    BY <1>16 DEF Content!Providers
  <2>2. thread'[t].at = p /\ \A s \in Loaders \ {t} : thread'[s] = thread[s]
    BY <1>5, <2>1 DEF ContentPlaces
  <2> QED
    BY <1>2, <1>4, <1>6, <1>16, <2>2 DEF Content!Providers, Content!At, Content!content,
       ContentPlaces
<1>17. CASE Content!Clear(t)
  <2>1. lock'["configs"].w = lock["configs"].w /\ lock'["proxies"].w = lock["proxies"].w
    BY <1>0, <1>4, <1>17 DEF Content!Clear, Content!Writing, ContentType
  <2>2. thread'[t].at = "leave" /\ \A s \in Loaders \ {t} : thread'[s] = thread[s]
    BY <1>5, <1>17 DEF Content!Clear, ContentPlaces
  <2> QED BY <1>6, <1>17, <2>1, <2>2 DEF Content!Clear, Content!At, ContentPlaces
<1>18. CASE Content!Leave(t)
  <2>1. thread'[t].at = "idle" /\ \A s \in Loaders \ {t} : thread'[s] = thread[s]
    BY <1>0, <1>18 DEF Content!Leave, Content!Idle, ContentType
  <2> QED
    BY <1>3, <1>4, <1>6, <1>18, <2>1 DEF Content!Leave, Content!At, Content!content, ContentPlaces
<1>19. CASE Content!FetchProxies(t)
  <2>1. \A d, keep : Content!Fetched(t, d, keep) =>
          thread'[t].at = "parse" /\ \A s \in Loaders \ {t} : thread'[s] = thread[s]
    BY <1>0 DEF ContentType, Content!Fetched
  <2>2. \E p \in {"parse", "leave"} : thread'[t].at = p /\ \A s \in Loaders \ {t} : thread'[s] = thread[s]
    BY <1>5, <1>19, <2>1 DEF Content!FetchProxies, ContentPlaces
  <2> QED BY <1>6, <1>19, <2>2 DEF Content!FetchProxies, Content!At, ContentPlaces
<1>20. CASE Content!ParseProxies(t)
  <2>1. \E p \in {"configs", "leave"} : thread'[t].at = p /\ \A s \in Loaders \ {t} : thread'[s] = thread[s]
    BY <1>5, <1>20 DEF Content!ParseProxies, ContentPlaces
  <2> QED
    BY <1>2, <1>4, <1>6, <1>20, <2>1 DEF Content!ParseProxies, Content!At, Content!content,
       ContentPlaces
<1>21. CASE Content!Check(t)
  <2>1. thread'[t].at = "probe" /\ \A s \in Loaders \ {t} : thread'[s] = thread[s]
    BY <1>0, <1>21 DEF Content!Check, ContentType
  <2> QED
    BY <1>2, <1>4, <1>6, <1>21, <2>1 DEF Content!Check, Content!At, Content!content, ContentPlaces
<1>22. CASE Content!Probe(t)
  <2>1. thread'[t].at = "results" /\ \A s \in Loaders \ {t} : thread'[s] = thread[s]
    BY <1>5, <1>22 DEF Content!Probe, ContentPlaces
  <2> QED
    BY <1>2, <1>4, <1>6, <1>22, <2>1 DEF Content!Probe, Content!At, Content!content, ContentPlaces
<1>23. CASE Content!Results(t)
  <2>1. thread'[t].at = "leave" /\ \A s \in Loaders \ {t} : thread'[s] = thread[s]
    BY <1>5, <1>23 DEF Content!Results, ContentPlaces
  <2>2. Content!Free(t, {"proxies"}) \in [Content!Locks -> [w : Loaders \cup {None}, r : SUBSET Loaders, wait : SUBSET Loaders]]
    BY <1>0, <1>4, FreeingWriters
  <2>3. /\ lock'["configs"].w = Content!Free(t, {"proxies"})["configs"].w
        /\ lock'["proxies"].w = Content!Free(t, {"proxies"})["proxies"].w
    BY <1>4, <1>23, <2>2 DEF Content!Results
  <2>4. kind = "rule" \/ lock["proxies"].w # t
    BY <1>8, <1>23 DEF LoadHolds, Content!Results, Content!At
  <2>5. CASE lock["proxies"].w # t
    BY <1>3, <1>4, <1>6, <1>23, <2>1, <2>3, <2>5 DEF Content!Results, Content!At, ContentPlaces
  <2> QED BY <1>7, <1>23, <2>4, <2>5 DEF Content!Results
<1>24. CASE Content!Nodes(t)
  <2>1. thread'[t].at = "leave" /\ \A s \in Loaders \ {t} : thread'[s] = thread[s]
    BY <1>5, <1>24 DEF Content!Nodes, ContentPlaces
  <2> QED BY <1>6, <1>24, <2>1 DEF Content!Nodes, Content!At, Content!content, ContentPlaces
<1>25. CASE Content!Alive(t)
  <2>1. \E p \in {"filter", "leave"} : thread'[t].at = p /\ \A s \in Loaders \ {t} : thread'[s] = thread[s]
    BY <1>5, <1>25 DEF Content!Alive, ContentPlaces
  <2>2. kind = "rule" \/ lock["proxies"].w # t
    BY <1>8, <1>25 DEF LoadHolds, Content!Alive, Content!At
  <2>3. CASE lock["proxies"].w # t
    <3>1. lock'["configs"].w = lock["configs"].w /\ lock'["proxies"].w = lock["proxies"].w
      BY <1>2, <1>3, <1>4, <1>25, <2>3 DEF Content!Alive
    <3> QED BY <1>6, <1>25, <2>1, <3>1 DEF Content!Alive, Content!At, Content!content, ContentPlaces
  <2> QED BY <1>7, <1>25, <2>2, <2>3 DEF Content!Alive, Content!content
<1> QED
  BY <1>9, <1>10, <1>11, <1>12, <1>13, <1>14, <1>15, <1>16, <1>17, <1>18, <1>19, <1>20, <1>21,
     <1>22,
     <1>23, <1>24, <1>25 DEF Content!Work

\* Whoever finds the two guards free finds the configs and the proxies of one
\* document: no interleaving of loads, by the updater and by reload_provider,
\* publishes the configs of one download with the proxies of another
\* (ProxyProvider::load).
THEOREM PairAlwaysOne ==
  ASSUME Content!ContentAssumption
  PROVE Content!Spec => []Content!PairIsOne
<1>1. Content!Init => ContentInv BY ContentStart
<1>2. ContentInv /\ [Content!Next]_(Content!vars) => ContentInv'
  <2>1. ASSUME ContentInv, Content!Next PROVE ContentInv'
    BY <2>1, ContentKept DEF Content!Next
  <2>2. ASSUME ContentInv, UNCHANGED Content!vars PROVE ContentInv'
    BY <2>2 DEF ContentInv, ContentType, LoadHolds, Content!vars
  <2> QED BY <2>1, <2>2
<1>3. ContentInv => Content!PairIsOne BY DEF ContentInv, Content!PairIsOne
<1> QED BY <1>1, <1>2, <1>3, PTL DEF Content!Spec

(***************************************************************************)
(* TunMode                                                                 *)
(***************************************************************************)

Tun == INSTANCE TunMode WITH status <- report

TunSteps == {"idle", "clean", "check", "device", "thread", "routes", "publish", "publishRoutes",
             "publishDevice"}
\* The call has a device of its own, a processor, routes, that nobody else sees.
HasDevice == step \in {"thread", "routes", "publish", "publishRoutes", "publishDevice"}
HasProcessor == step \in {"routes", "publish"}
HasRoutes == step \in {"publish", "publishRoutes"}

CallType ==
  /\ os \in {"linux", "windows", "mobile"} /\ step \in TunSteps
  /\ want \in [op : {"none", "enable", "disable"}, mode : 0 .. 3]
  /\ used \in 0 .. MaxEnable /\ local \subseteq Tun!Routes

DeviceType ==
  /\ dev \in [Tun!Gens -> [open : BOOLEAN, running : BOOLEAN, cancelled : BOOLEAN]]
  /\ reader \in [Tun!Gens -> {"none", "run", "ended"}]
  /\ loop \in [Tun!Gens -> {"none", "run", "ended"}]
  /\ processor \in [Tun!Gens -> {"none", "run", "stopped"}]

SlotType ==
  /\ devSlot \in 0 .. MaxEnable /\ procSlot \in 0 .. MaxEnable
  /\ managed \in [held : BOOLEAN, added : SUBSET Tun!Routes, active : BOOLEAN]
  /\ kernel \subseteq Tun!Routes /\ abandoned \subseteq Tun!Routes

TunType == CallType /\ DeviceType /\ SlotType

\* What a call may count on at each of its steps, whoever ran before it.
CallStands ==
  /\ step \in {"check", "device"} => used < MaxEnable
  /\ step = "clean" /\ want.op # "disable" => used < MaxEnable /\ want.op = "enable"
  /\ step \notin {"idle", "clean"} => want.op = "enable"
  /\ HasDevice => used >= 1
  /\ step \notin {"idle", "clean"} => devSlot = 0
  /\ step \notin {"idle", "clean", "publishRoutes", "publishDevice"} => procSlot = 0
  /\ step \notin {"idle", "clean", "publishDevice"} => managed = Tun!NoManager
  /\ step \in {"publishRoutes", "publishDevice"} => os = "windows"
  /\ step \notin {"publish", "publishRoutes", "publishDevice"} => local = {}
  /\ step \notin {"idle", "clean", "check"} /\ os = "linux" => Tun!Capturing
  /\ HasRoutes => IF Tun!Capturing THEN Tun!Capture \subseteq local ELSE local = {}

\* Every open device and every running processor is the published one or the
\* call's own.
DevicesOwned ==
  /\ \A g \in Tun!Gens : dev[g].open => g = devSlot \/ (HasDevice /\ g = used)
  /\ \A g \in Tun!Gens : processor[g] = "run" => g = procSlot \/ (HasProcessor /\ g = used)
  /\ \A g \in Tun!Gens : dev[g].open => ~dev[g].cancelled /\ (reader[g] = "run" => dev[g].running)
  /\ HasDevice => dev[used].open

\* Every route in the table is the manager's, the call's, or one the system
\* refused to delete; those that capture go with the device.
RoutesOwned ==
  /\ kernel \subseteq managed.added \cup abandoned \cup (IF HasRoutes THEN local ELSE {})
  /\ managed.added # {} => managed.active
  /\ kernel \cap Tun!Capture # {} => devSlot # 0 \/ step \in {"publish", "publishRoutes", "publishDevice"}
  /\ pinned => managed.active \/ abandoned # {} \/ (HasRoutes /\ Tun!Capturing)

\* What only Windows, or only a phone, has.
PlatformStands ==
  /\ trusted \/ pinned => os = "windows"
  /\ trusted => step # "check"
  /\ legacy # "idle" => os = "windows"
  /\ os = "mobile" => managed = Tun!NoManager /\ kernel = {} /\ abandoned = {}
  /\ os = "mobile" /\ ~vpnFd => devSlot = 0 /\ procSlot = 0 /\ step \in {"idle", "clean"}

\* What a call has done so far, if stop_tun_mode keeps out of it.
CallAlone ==
  ~overlapped =>
    /\ step \in {"publishRoutes", "publishDevice"} => procSlot = used
    /\ step = "publishDevice" => managed = [held |-> TRUE, added |-> local, active |-> Tun!Capturing]
    /\ step \in {"publish", "publishRoutes", "publishDevice"} /\ Tun!Capturing =>
         Tun!Capture \subseteq kernel
    /\ step \in {"routes", "publish", "publishRoutes", "publishDevice"} /\ loop[used] = "run" =>
         processor[used] = "run"

TunInv ==
  /\ TunType /\ CallStands /\ DevicesOwned /\ RoutesOwned /\ PlatformStands /\ CallAlone
  /\ Tun!ReportedDownIsDown /\ Tun!ReportedUpIsUp

\* A device taken out of its slot is closed; no other is touched.
LEMMA TakeDeviceIs ==
  ASSUME TunType, NEW s \in 0 .. MaxEnable
  PROVE /\ Tun!TakeDevice(s) \in [Tun!Gens -> [open : BOOLEAN, running : BOOLEAN, cancelled : BOOLEAN]]
        /\ \A g \in Tun!Gens : g # s => Tun!TakeDevice(s)[g] = dev[g]
        /\ \A g \in Tun!Gens : g = s => ~Tun!TakeDevice(s)[g].open
BY DEF TunType, DeviceType, Tun!TakeDevice, Tun!DropDevice, Tun!StopDevice

\* A dropped device is closed, stopped before or not.
LEMMA DropDeviceIs ==
  ASSUME NEW d \in [open : BOOLEAN, running : BOOLEAN, cancelled : BOOLEAN]
  PROVE /\ Tun!DropDevice(d) \in [open : BOOLEAN, running : BOOLEAN, cancelled : BOOLEAN]
        /\ Tun!StopDevice(d) \in [open : BOOLEAN, running : BOOLEAN, cancelled : BOOLEAN]
        /\ ~Tun!DropDevice(d).open /\ ~Tun!DropDevice(Tun!StopDevice(d)).open
BY DEF Tun!DropDevice, Tun!StopDevice

LEMMA StopProcessorIs ==
  ASSUME TunType, NEW s \in 0 .. MaxEnable
  PROVE /\ Tun!StopProcessor(s) \in [Tun!Gens -> {"none", "run", "stopped"}]
        /\ \A g \in Tun!Gens : Tun!StopProcessor(s)[g] = IF g = s THEN "stopped" ELSE processor[g]
BY DEF TunType, DeviceType, Tun!StopProcessor

\* disable_global_mode keeps what the system refused to delete.
LEMMA DisableGlobalModeIs ==
  ASSUME TunType, RoutesOwned, NEW gone \in SUBSET managed.added
  PROVE LET left == Tun!DisableGlobalMode(managed, gone)
        IN  /\ left \in [held : BOOLEAN, added : SUBSET Tun!Routes, active : BOOLEAN]
            /\ left.added = managed.added \ gone
            /\ left.active <=> left.added # {}
            /\ left.active => managed.active
            /\ left.held = managed.held
<1>1. managed \in [held : BOOLEAN, added : SUBSET Tun!Routes, active : BOOLEAN]
  BY DEF TunType, SlotType
<1>2. CASE managed.active
  BY <1>1, <1>2 DEF Tun!DisableGlobalMode
<1>3. CASE ~managed.active
  BY <1>1, <1>3 DEF Tun!DisableGlobalMode, RoutesOwned
<1> QED BY <1>1, <1>2, <1>3

LEMMA InstalledIs ==
  ASSUME TunType, NEW added \in Tun!Installed(kernel)
  PROVE added \subseteq Tun!Routes
BY DEF TunType, SlotType, Tun!Installed, Tun!Routes, Tun!Capture

LEMMA WithoutInterfaceIs ==
  ASSUME NEW t, NEW s
  PROVE /\ Tun!WithoutInterface(t, s) \subseteq t
        /\ s # 0 => Tun!WithoutInterface(t, s) \cap Tun!Capture = {}
        /\ s = 0 => Tun!WithoutInterface(t, s) = t
BY DEF Tun!WithoutInterface

LEMMA TunStart ==
  ASSUME Tun!TunAssumption, Tun!Init
  PROVE TunInv
<1> USE DEF Tun!TunAssumption, Tun!Init
<1>1. TunType
  <2>1. CallType BY DEF CallType, TunSteps, Tun!Off
  <2>2. DeviceType BY DEF DeviceType
  <2>3. SlotType BY DEF SlotType, Tun!NoManager
  <2> QED BY <2>1, <2>2, <2>3 DEF TunType
<1>2. CallStands BY DEF CallStands, HasDevice, HasRoutes
<1>3. DevicesOwned BY DEF DevicesOwned, HasDevice, HasProcessor, Tun!Gens
<1>4. RoutesOwned BY DEF RoutesOwned, Tun!NoManager
<1>5. PlatformStands BY DEF PlatformStands
<1>6. CallAlone BY DEF CallAlone
<1>7. Tun!ReportedDownIsDown /\ Tun!ReportedUpIsUp
  BY DEF Tun!ReportedDownIsDown, Tun!ReportedUpIsUp, Tun!Quiet
<1> QED BY <1>1, <1>2, <1>3, <1>4, <1>5, <1>6, <1>7 DEF TunInv
LEMMA CallTyped ==
  ASSUME Tun!TunAssumption, TunInv, Tun!Next
  PROVE CallType'
<1>a. CallType /\ CallStands /\ kernel \subseteq Tun!Routes BY DEF TunInv, TunType, SlotType
<1>b. MaxEnable \in Nat /\ Modes \subseteq 1 .. 3 BY DEF Tun!TunAssumption
<1>c. \A added \in Tun!Installed(kernel) : added \subseteq Tun!Routes BY InstalledIs DEF TunInv
<1>1. ASSUME NEW m \in Modes, Tun!BeginEnable(m) PROVE CallType'
  BY <1>1, <1>a, <1>b DEF Tun!BeginEnable, Tun!threadVars, Tun!slotVars, Tun!routeVars,
     Tun!flagVars, CallType, TunSteps
<1>2. ASSUME NEW m \in Modes, Tun!SetWindowsProxyMode(m) PROVE CallType'
  BY <1>2, <1>a, <1>b DEF Tun!SetWindowsProxyMode, Tun!callVars, Tun!threadVars, CallType, TunSteps
<1>3. CASE Tun!BeginDisable
  BY <1>3, <1>a, <1>b DEF Tun!BeginDisable, Tun!threadVars, Tun!slotVars, Tun!routeVars,
     Tun!flagVars, CallType, TunSteps, Tun!Off
<1>4. CASE Tun!CleanLinux
  BY <1>4, <1>a, <1>b DEF Tun!CleanLinux, Tun!Return, Tun!Continue, Tun!threadVars,
     Tun!reportVars, CallType, TunSteps
<1>5. CASE Tun!CleanWindows
  BY <1>5, <1>a, <1>b DEF Tun!CleanWindows, Tun!Return, Tun!Continue, Tun!threadVars,
     Tun!reportVars, CallType, TunSteps
<1>6. CASE Tun!CleanMobile
  BY <1>6, <1>a, <1>b DEF Tun!CleanMobile, Tun!Return, Tun!Continue, Tun!threadVars,
     Tun!routeVars, Tun!reportVars, CallType, TunSteps
<1>7. CASE Tun!StopMobile
  BY <1>7, <1>a, <1>b DEF Tun!StopMobile, Tun!Return, Tun!threadVars, Tun!routeVars, CallType,
     TunSteps
<1>8. CASE Tun!CheckFails
  BY <1>8, <1>a, <1>b DEF Tun!CheckFails, Tun!Return, Tun!threadVars, Tun!slotVars, Tun!routeVars,
     CallType, TunSteps
<1>9. CASE Tun!CheckPasses
  BY <1>9, <1>a, <1>b DEF Tun!CheckPasses, Tun!Continue, Tun!threadVars, Tun!slotVars,
     Tun!routeVars, Tun!reportVars, CallType, TunSteps
<1>10. CASE Tun!DeviceStarts
  BY <1>10, <1>a, <1>b DEF Tun!DeviceStarts, Tun!slotVars, Tun!routeVars, Tun!flagVars,
     Tun!reportVars, CallType, TunSteps, CallStands
<1>11. CASE Tun!DeviceFails
  BY <1>11, <1>a, <1>b DEF Tun!DeviceFails, Tun!slotVars, Tun!routeVars, CallType, TunSteps,
     CallStands
<1>12. CASE Tun!LoopSpawns
  BY <1>12, <1>a, <1>b DEF Tun!LoopSpawns, Tun!Continue, Tun!slotVars, Tun!routeVars,
     Tun!flagVars, Tun!reportVars, CallType, TunSteps
<1>13. CASE Tun!LoopSpawnFails
  BY <1>13, <1>a, <1>b DEF Tun!LoopSpawnFails, Tun!Return, Tun!Continue, Tun!threadVars,
     Tun!slotVars, Tun!routeVars, Tun!flagVars, Tun!reportVars, CallType, TunSteps
<1>14. CASE Tun!RoutesLinux
  <2>1. os' = os /\ want' = want /\ used' = used BY <1>14 DEF Tun!RoutesLinux, Tun!Return
  <2>2. step' \in TunSteps BY <1>14 DEF Tun!RoutesLinux, Tun!Return, TunSteps
  <2>3. local' \subseteq Tun!Routes BY <1>c, <1>14 DEF Tun!RoutesLinux, Tun!Return
  <2> QED BY <1>a, <2>1, <2>2, <2>3 DEF CallType
<1>15. CASE Tun!RoutesWindows
  <2>1. os' = os /\ want' = want /\ used' = used BY <1>15 DEF Tun!RoutesWindows, Tun!Return
  <2>2. step' \in TunSteps BY <1>15 DEF Tun!RoutesWindows, Tun!Return, TunSteps
  <2>3. local' \subseteq Tun!Routes BY <1>c, <1>15 DEF Tun!RoutesWindows, Tun!Return
  <2> QED BY <1>a, <2>1, <2>2, <2>3 DEF CallType
<1>16. CASE Tun!RoutesNone
  BY <1>16, <1>a, <1>b DEF Tun!RoutesNone, Tun!Continue, Tun!threadVars, Tun!slotVars,
     Tun!routeVars, Tun!flagVars, Tun!reportVars, CallType, TunSteps
<1>17. CASE Tun!Publish
  BY <1>17, <1>a, <1>b DEF Tun!Publish, Tun!Return, Tun!threadVars, Tun!routeVars, CallType,
     TunSteps
<1>18. CASE Tun!PublishProcessor
  BY <1>18, <1>a, <1>b DEF Tun!PublishProcessor, Tun!Continue, Tun!threadVars, Tun!routeVars,
     Tun!flagVars, Tun!reportVars, CallType, TunSteps
<1>19. CASE Tun!PublishRoutes
  BY <1>19, <1>a, <1>b DEF Tun!PublishRoutes, Tun!Continue, Tun!threadVars, Tun!routeVars,
     Tun!flagVars, Tun!reportVars, CallType, TunSteps
<1>20. CASE Tun!PublishDevice
  BY <1>20, <1>a, <1>b DEF Tun!PublishDevice, Tun!Return, Tun!threadVars, Tun!routeVars, CallType,
     TunSteps
<1>21. CASE Tun!SetVpnFd
  BY <1>21, <1>a, <1>b DEF Tun!SetVpnFd, Tun!callVars, Tun!threadVars, Tun!slotVars,
     Tun!routeVars, Tun!reportVars, CallType, TunSteps
<1>22. CASE Tun!LegacyStopProcessor
  BY <1>22, <1>a, <1>b DEF Tun!LegacyStopProcessor, Tun!callVars, Tun!threadVars, Tun!routeVars,
     Tun!flagVars, CallType, TunSteps
<1>23. CASE Tun!LegacyStopRoutes
  BY <1>23, <1>a, <1>b DEF Tun!LegacyStopRoutes, Tun!callVars, Tun!threadVars, CallType, TunSteps
<1>24. CASE Tun!LegacyStopDevice
  BY <1>24, <1>a, <1>b DEF Tun!LegacyStopDevice, Tun!callVars, Tun!threadVars, CallType, TunSteps
<1>25. ASSUME NEW g \in Tun!Gens, Tun!ReaderEnds(g) PROVE CallType'
  BY <1>25, <1>a, <1>b DEF Tun!ReaderEnds, Tun!threadFrame, Tun!callVars, Tun!slotVars,
     Tun!routeVars, Tun!flagVars, Tun!reportVars, CallType, TunSteps
<1>26. ASSUME NEW g \in Tun!Gens, Tun!WriterEnds(g) PROVE CallType'
  BY <1>26, <1>a, <1>b DEF Tun!WriterEnds, Tun!threadFrame, Tun!callVars, Tun!slotVars,
     Tun!routeVars, Tun!flagVars, Tun!reportVars, CallType, TunSteps
<1>27. ASSUME NEW g \in Tun!Gens, Tun!LoopEnds(g) PROVE CallType'
  BY <1>27, <1>a, <1>b DEF Tun!LoopEnds, Tun!threadFrame, Tun!callVars, Tun!slotVars,
     Tun!routeVars, Tun!flagVars, Tun!reportVars, CallType, TunSteps
<1>28. ASSUME NEW g \in Tun!Gens, Tun!ReaderFails(g) PROVE CallType'
  BY <1>28, <1>a, <1>b DEF Tun!ReaderFails, Tun!threadFrame, Tun!callVars, Tun!slotVars,
     Tun!routeVars, Tun!flagVars, Tun!reportVars, CallType, TunSteps
<1> QED
  BY <1>1, <1>2, <1>3, <1>4, <1>5, <1>6, <1>7, <1>8, <1>9, <1>10, <1>11, <1>12, <1>13, <1>14,
     <1>15, <1>16, <1>17, <1>18, <1>19, <1>20, <1>21, <1>22, <1>23,
     <1>24, <1>25, <1>26, <1>27, <1>28 DEF Tun!Next, Tun!Lifecycle, Tun!Threads

LEMMA DeviceTyped ==
  ASSUME Tun!TunAssumption, TunInv, Tun!Next
  PROVE DeviceType'
<1>a. TunType /\ CallStands BY DEF TunInv
<1>b. DeviceType /\ used \in 0 .. MaxEnable BY <1>a DEF TunType, CallType
<1>c. Tun!TakeDevice(devSlot) \in [Tun!Gens -> [open : BOOLEAN, running : BOOLEAN, cancelled : BOOLEAN]]
  BY <1>a, TakeDeviceIs DEF TunType, SlotType
<1>d. \A s \in 0 .. MaxEnable : Tun!StopProcessor(s) \in [Tun!Gens -> {"none", "run", "stopped"}]
  BY <1>a, StopProcessorIs
<1>e. \A d \in [open : BOOLEAN, running : BOOLEAN, cancelled : BOOLEAN] :
        /\ Tun!DropDevice(d) \in [open : BOOLEAN, running : BOOLEAN, cancelled : BOOLEAN]
        /\ Tun!StopDevice(d) \in [open : BOOLEAN, running : BOOLEAN, cancelled : BOOLEAN]
  BY DropDeviceIs
<1>f. devSlot \in 0 .. MaxEnable /\ procSlot \in 0 .. MaxEnable BY <1>a DEF TunType, SlotType
<1>g. Tun!StartedDevice \in [open : BOOLEAN, running : BOOLEAN, cancelled : BOOLEAN]
  BY DEF Tun!StartedDevice
<1>h. MaxEnable \in Nat BY DEF Tun!TunAssumption
<1>1. ASSUME NEW m \in Modes, Tun!BeginEnable(m) PROVE DeviceType'
  BY <1>1, <1>b, <1>c, <1>d, <1>e, <1>f, <1>g, <1>h DEF Tun!BeginEnable, Tun!threadVars,
     Tun!slotVars, Tun!routeVars, Tun!flagVars, DeviceType
<1>2. ASSUME NEW m \in Modes, Tun!SetWindowsProxyMode(m) PROVE DeviceType'
  BY <1>2, <1>b, <1>c, <1>d, <1>e, <1>f, <1>g, <1>h DEF Tun!SetWindowsProxyMode, Tun!callVars,
     Tun!threadVars, DeviceType
<1>3. CASE Tun!BeginDisable
  BY <1>3, <1>b, <1>c, <1>d, <1>e, <1>f, <1>g, <1>h DEF Tun!BeginDisable, Tun!threadVars,
     Tun!slotVars, Tun!routeVars, Tun!flagVars, DeviceType
<1>4. CASE Tun!CleanLinux
  BY <1>4, <1>b, <1>c, <1>d, <1>e, <1>f, <1>g, <1>h DEF Tun!CleanLinux, Tun!Return, Tun!Continue,
     Tun!threadVars, Tun!reportVars, DeviceType
<1>5. CASE Tun!CleanWindows
  BY <1>5, <1>b, <1>c, <1>d, <1>e, <1>f, <1>g, <1>h DEF Tun!CleanWindows, Tun!Return,
     Tun!Continue, Tun!threadVars, Tun!reportVars, DeviceType
<1>6. CASE Tun!CleanMobile
  BY <1>6, <1>b, <1>c, <1>d, <1>e, <1>f, <1>g, <1>h DEF Tun!CleanMobile, Tun!Return, Tun!Continue,
     Tun!threadVars, Tun!routeVars, Tun!reportVars, DeviceType
<1>7. CASE Tun!StopMobile
  BY <1>7, <1>b, <1>c, <1>d, <1>e, <1>f, <1>g, <1>h DEF Tun!StopMobile, Tun!Return,
     Tun!threadVars, Tun!routeVars, DeviceType
<1>8. CASE Tun!CheckFails
  BY <1>8, <1>b, <1>c, <1>d, <1>e, <1>f, <1>g, <1>h DEF Tun!CheckFails, Tun!Return,
     Tun!threadVars, Tun!slotVars, Tun!routeVars, DeviceType
<1>9. CASE Tun!CheckPasses
  BY <1>9, <1>b, <1>c, <1>d, <1>e, <1>f, <1>g, <1>h DEF Tun!CheckPasses, Tun!Continue,
     Tun!threadVars, Tun!slotVars, Tun!routeVars, Tun!reportVars, DeviceType
<1>10. CASE Tun!DeviceStarts
  BY <1>10, <1>b, <1>c, <1>d, <1>e, <1>f, <1>g, <1>h DEF Tun!DeviceStarts, Tun!slotVars,
     Tun!routeVars, Tun!flagVars, Tun!reportVars, DeviceType
<1>11. CASE Tun!DeviceFails
  BY <1>11, <1>b, <1>c, <1>d, <1>e, <1>f, <1>g, <1>h DEF Tun!DeviceFails, Tun!slotVars,
     Tun!routeVars, DeviceType
<1>12. CASE Tun!LoopSpawns
  BY <1>12, <1>b, <1>c, <1>d, <1>e, <1>f, <1>g, <1>h DEF Tun!LoopSpawns, Tun!Continue,
     Tun!slotVars, Tun!routeVars, Tun!flagVars, Tun!reportVars, DeviceType
<1>13. CASE Tun!LoopSpawnFails
  <2>1. dev[used] \in [open : BOOLEAN, running : BOOLEAN, cancelled : BOOLEAN] =>
        /\ Tun!DropDevice(dev[used]) \in [open : BOOLEAN, running : BOOLEAN, cancelled : BOOLEAN]
        /\ Tun!DropDevice(Tun!StopDevice(dev[used])) \in [open : BOOLEAN, running : BOOLEAN, cancelled : BOOLEAN]
    BY <1>e
  <2>2. dev' \in [Tun!Gens -> [open : BOOLEAN, running : BOOLEAN, cancelled : BOOLEAN]]
    BY <1>b, <1>a, <2>1, <1>13 DEF Tun!LoopSpawnFails, DeviceType, CallStands, HasDevice, Tun!Gens
  <2>3. processor' \in [Tun!Gens -> {"none", "run", "stopped"}]
    BY <1>b, <1>d, <1>13 DEF Tun!LoopSpawnFails, DeviceType
  <2>4. UNCHANGED <<reader, loop>> BY <1>13 DEF Tun!LoopSpawnFails, Tun!threadVars
  <2> QED BY <1>b, <2>2, <2>3, <2>4 DEF DeviceType
<1>14. CASE Tun!RoutesLinux
  <2>1. dev[used] \in [open : BOOLEAN, running : BOOLEAN, cancelled : BOOLEAN] =>
        /\ Tun!DropDevice(dev[used]) \in [open : BOOLEAN, running : BOOLEAN, cancelled : BOOLEAN]
        /\ Tun!DropDevice(Tun!StopDevice(dev[used])) \in [open : BOOLEAN, running : BOOLEAN, cancelled : BOOLEAN]
    BY <1>e
  <2>2. dev' \in [Tun!Gens -> [open : BOOLEAN, running : BOOLEAN, cancelled : BOOLEAN]]
    BY <1>b, <1>a, <2>1, <1>14 DEF Tun!RoutesLinux, DeviceType, CallStands, HasDevice, Tun!Gens
  <2>3. processor' \in [Tun!Gens -> {"none", "run", "stopped"}]
    BY <1>b, <1>d, <1>14 DEF Tun!RoutesLinux, DeviceType
  <2>4. UNCHANGED <<reader, loop>> BY <1>14 DEF Tun!RoutesLinux, Tun!threadVars
  <2> QED BY <1>b, <2>2, <2>3, <2>4 DEF DeviceType
<1>15. CASE Tun!RoutesWindows
  <2>1. dev[used] \in [open : BOOLEAN, running : BOOLEAN, cancelled : BOOLEAN] =>
        /\ Tun!DropDevice(dev[used]) \in [open : BOOLEAN, running : BOOLEAN, cancelled : BOOLEAN]
        /\ Tun!DropDevice(Tun!StopDevice(dev[used])) \in [open : BOOLEAN, running : BOOLEAN, cancelled : BOOLEAN]
    BY <1>e
  <2>2. dev' \in [Tun!Gens -> [open : BOOLEAN, running : BOOLEAN, cancelled : BOOLEAN]]
    BY <1>b, <1>a, <2>1, <1>15 DEF Tun!RoutesWindows, DeviceType, CallStands, HasDevice, Tun!Gens
  <2>3. processor' \in [Tun!Gens -> {"none", "run", "stopped"}]
    BY <1>b, <1>d, <1>15 DEF Tun!RoutesWindows, DeviceType
  <2>4. UNCHANGED <<reader, loop>> BY <1>15 DEF Tun!RoutesWindows, Tun!threadVars
  <2> QED BY <1>b, <2>2, <2>3, <2>4 DEF DeviceType
<1>16. CASE Tun!RoutesNone
  BY <1>16, <1>b, <1>c, <1>d, <1>e, <1>f, <1>g, <1>h DEF Tun!RoutesNone, Tun!Continue,
     Tun!threadVars, Tun!slotVars, Tun!routeVars, Tun!flagVars, Tun!reportVars, DeviceType
<1>17. CASE Tun!Publish
  BY <1>17, <1>b, <1>c, <1>d, <1>e, <1>f, <1>g, <1>h DEF Tun!Publish, Tun!Return, Tun!threadVars,
     Tun!routeVars, DeviceType
<1>18. CASE Tun!PublishProcessor
  BY <1>18, <1>b, <1>c, <1>d, <1>e, <1>f, <1>g, <1>h DEF Tun!PublishProcessor, Tun!Continue,
     Tun!threadVars, Tun!routeVars, Tun!flagVars, Tun!reportVars, DeviceType
<1>19. CASE Tun!PublishRoutes
  BY <1>19, <1>b, <1>c, <1>d, <1>e, <1>f, <1>g, <1>h DEF Tun!PublishRoutes, Tun!Continue,
     Tun!threadVars, Tun!routeVars, Tun!flagVars, Tun!reportVars, DeviceType
<1>20. CASE Tun!PublishDevice
  BY <1>20, <1>b, <1>c, <1>d, <1>e, <1>f, <1>g, <1>h DEF Tun!PublishDevice, Tun!Return,
     Tun!threadVars, Tun!routeVars, DeviceType
<1>21. CASE Tun!SetVpnFd
  BY <1>21, <1>b, <1>c, <1>d, <1>e, <1>f, <1>g, <1>h DEF Tun!SetVpnFd, Tun!callVars,
     Tun!threadVars, Tun!slotVars, Tun!routeVars, Tun!reportVars, DeviceType
<1>22. CASE Tun!LegacyStopProcessor
  BY <1>22, <1>b, <1>c, <1>d, <1>e, <1>f, <1>g, <1>h DEF Tun!LegacyStopProcessor, Tun!callVars,
     Tun!threadVars, Tun!routeVars, Tun!flagVars, DeviceType
<1>23. CASE Tun!LegacyStopRoutes
  BY <1>23, <1>b, <1>c, <1>d, <1>e, <1>f, <1>g, <1>h DEF Tun!LegacyStopRoutes, Tun!callVars,
     Tun!threadVars, DeviceType
<1>24. CASE Tun!LegacyStopDevice
  BY <1>24, <1>b, <1>c, <1>d, <1>e, <1>f, <1>g, <1>h DEF Tun!LegacyStopDevice, Tun!callVars,
     Tun!threadVars, DeviceType
<1>25. ASSUME NEW g \in Tun!Gens, Tun!ReaderEnds(g) PROVE DeviceType'
  BY <1>25, <1>b, <1>c, <1>d, <1>e, <1>f, <1>g, <1>h DEF Tun!ReaderEnds, Tun!threadFrame,
     Tun!callVars, Tun!slotVars, Tun!routeVars, Tun!flagVars, Tun!reportVars, DeviceType
<1>26. ASSUME NEW g \in Tun!Gens, Tun!WriterEnds(g) PROVE DeviceType'
  <2>1. dev' \in [Tun!Gens -> [open : BOOLEAN, running : BOOLEAN, cancelled : BOOLEAN]]
    BY <1>b, <1>26 DEF Tun!WriterEnds, DeviceType
  <2> QED BY <1>b, <2>1, <1>26 DEF Tun!WriterEnds, DeviceType
<1>27. ASSUME NEW g \in Tun!Gens, Tun!LoopEnds(g) PROVE DeviceType'
  BY <1>27, <1>b, <1>c, <1>d, <1>e, <1>f, <1>g, <1>h DEF Tun!LoopEnds, Tun!threadFrame,
     Tun!callVars, Tun!slotVars, Tun!routeVars, Tun!flagVars, Tun!reportVars, DeviceType, Tun!Gens
<1>28. ASSUME NEW g \in Tun!Gens, Tun!ReaderFails(g) PROVE DeviceType'
  BY <1>28, <1>b, <1>c, <1>d, <1>e, <1>f, <1>g, <1>h DEF Tun!ReaderFails, Tun!threadFrame,
     Tun!callVars, Tun!slotVars, Tun!routeVars, Tun!flagVars, Tun!reportVars, DeviceType
<1> QED
  BY <1>1, <1>2, <1>3, <1>4, <1>5, <1>6, <1>7, <1>8, <1>9, <1>10, <1>11, <1>12, <1>13, <1>14,
     <1>15, <1>16, <1>17, <1>18, <1>19, <1>20, <1>21, <1>22, <1>23,
     <1>24, <1>25, <1>26, <1>27, <1>28 DEF Tun!Next, Tun!Lifecycle, Tun!Threads

LEMMA SlotTyped ==
  ASSUME Tun!TunAssumption, TunInv, Tun!Next
  PROVE SlotType'
<1>a. TunType /\ RoutesOwned /\ CallStands BY DEF TunInv
<1>b. SlotType /\ used \in 0 .. MaxEnable /\ local \subseteq Tun!Routes
  BY <1>a DEF TunType, CallType
<1>c. \A gone \in SUBSET managed.added :
        Tun!DisableGlobalMode(managed, gone) \in [held : BOOLEAN, added : SUBSET Tun!Routes, active : BOOLEAN]
  BY <1>a, DisableGlobalModeIs
<1>d. Tun!NoManager \in [held : BOOLEAN, added : SUBSET Tun!Routes, active : BOOLEAN]
  BY DEF Tun!NoManager
<1>e. \A t, s : Tun!WithoutInterface(t, s) \subseteq t BY WithoutInterfaceIs
<1>f. \A added \in Tun!Installed(kernel) : added \subseteq Tun!Routes BY InstalledIs DEF TunInv
<1>g. MaxEnable \in Nat BY DEF Tun!TunAssumption
<1>1. ASSUME NEW m \in Modes, Tun!BeginEnable(m) PROVE SlotType'
  BY <1>1, <1>b, <1>c, <1>d, <1>e, <1>f, <1>g DEF Tun!BeginEnable, Tun!threadVars, Tun!slotVars,
     Tun!routeVars, Tun!flagVars, SlotType
<1>2. ASSUME NEW m \in Modes, Tun!SetWindowsProxyMode(m) PROVE SlotType'
  BY <1>2, <1>b, <1>c, <1>d, <1>e, <1>f, <1>g DEF Tun!SetWindowsProxyMode, Tun!callVars,
     Tun!threadVars, SlotType
<1>3. CASE Tun!BeginDisable
  BY <1>3, <1>b, <1>c, <1>d, <1>e, <1>f, <1>g DEF Tun!BeginDisable, Tun!threadVars, Tun!slotVars,
     Tun!routeVars, Tun!flagVars, SlotType
<1>4. CASE Tun!CleanLinux
  BY <1>4, <1>b, <1>c, <1>d, <1>e, <1>f, <1>g DEF Tun!CleanLinux, Tun!Return, Tun!Continue,
     Tun!threadVars, Tun!reportVars, SlotType
<1>5. CASE Tun!CleanWindows
  <2>1. devSlot' \in 0 .. MaxEnable /\ procSlot' \in 0 .. MaxEnable 
    <3>1. devSlot' \in {0, devSlot} /\ procSlot' \in {0, procSlot} BY <1>5 DEF Tun!CleanWindows
    <3> QED BY <1>b, <1>g, <3>1 DEF SlotType
  <2>2. managed' \in [held : BOOLEAN, added : SUBSET Tun!Routes, active : BOOLEAN]
    BY <1>b, <1>c, <1>d, <1>5 DEF Tun!CleanWindows
  <2>3. kernel' \subseteq Tun!Routes BY <1>b, <1>e, <1>5 DEF Tun!CleanWindows, SlotType
  <2>4. abandoned' = abandoned BY <1>5 DEF Tun!CleanWindows
  <2> QED BY <1>b, <2>1, <2>2, <2>3, <2>4 DEF SlotType
<1>6. CASE Tun!CleanMobile
  <2>1. devSlot' \in 0 .. MaxEnable /\ procSlot' \in 0 .. MaxEnable 
    <3>1. devSlot' \in {0, devSlot} /\ procSlot' \in {0, procSlot} BY <1>6 DEF Tun!CleanMobile
    <3> QED BY <1>b, <1>g, <3>1 DEF SlotType
  <2>2. UNCHANGED <<managed, kernel, abandoned>> BY <1>6 DEF Tun!CleanMobile, Tun!routeVars
  <2> QED BY <1>b, <2>1, <2>2 DEF SlotType
<1>7. CASE Tun!StopMobile
  BY <1>7, <1>b, <1>c, <1>d, <1>e, <1>f, <1>g DEF Tun!StopMobile, Tun!Return, Tun!threadVars,
     Tun!routeVars, SlotType
<1>8. CASE Tun!CheckFails
  BY <1>8, <1>b, <1>c, <1>d, <1>e, <1>f, <1>g DEF Tun!CheckFails, Tun!Return, Tun!threadVars,
     Tun!slotVars, Tun!routeVars, SlotType
<1>9. CASE Tun!CheckPasses
  BY <1>9, <1>b, <1>c, <1>d, <1>e, <1>f, <1>g DEF Tun!CheckPasses, Tun!Continue, Tun!threadVars,
     Tun!slotVars, Tun!routeVars, Tun!reportVars, SlotType
<1>10. CASE Tun!DeviceStarts
  BY <1>10, <1>b, <1>c, <1>d, <1>e, <1>f, <1>g DEF Tun!DeviceStarts, Tun!slotVars, Tun!routeVars,
     Tun!flagVars, Tun!reportVars, SlotType
<1>11. CASE Tun!DeviceFails
  BY <1>11, <1>b, <1>c, <1>d, <1>e, <1>f, <1>g DEF Tun!DeviceFails, Tun!slotVars, Tun!routeVars,
     SlotType
<1>12. CASE Tun!LoopSpawns
  BY <1>12, <1>b, <1>c, <1>d, <1>e, <1>f, <1>g DEF Tun!LoopSpawns, Tun!Continue, Tun!slotVars,
     Tun!routeVars, Tun!flagVars, Tun!reportVars, SlotType
<1>13. CASE Tun!LoopSpawnFails
  BY <1>13, <1>b, <1>c, <1>d, <1>e, <1>f, <1>g DEF Tun!LoopSpawnFails, Tun!Return, Tun!Continue,
     Tun!threadVars, Tun!slotVars, Tun!routeVars, Tun!flagVars, Tun!reportVars, SlotType
<1>14. CASE Tun!RoutesLinux
  <2>1. UNCHANGED <<devSlot, procSlot, managed>> BY <1>14 DEF Tun!RoutesLinux, Tun!slotVars
  <2>2. PICK added \in Tun!Installed(kernel) :
          \/ kernel' = kernel \cup added /\ abandoned' = abandoned
          \/ \E gone \in SUBSET added :
               /\ kernel' = Tun!WithoutInterface((kernel \cup added) \ gone, used)
               /\ abandoned' = abandoned \cup (added \ gone)
    BY <1>14 DEF Tun!RoutesLinux
  <2>3. kernel' \subseteq Tun!Routes /\ abandoned' \subseteq Tun!Routes
    BY <1>b, <1>e, <1>f, <2>2 DEF SlotType
  <2> QED BY <1>b, <2>1, <2>3 DEF SlotType
<1>15. CASE Tun!RoutesWindows
  <2>1. UNCHANGED <<devSlot, procSlot, managed>> BY <1>15 DEF Tun!RoutesWindows, Tun!slotVars
  <2>2. PICK added \in Tun!Installed(kernel) :
          \/ kernel' = kernel \cup added /\ abandoned' = abandoned
          \/ \E gone \in SUBSET added :
               /\ kernel' = Tun!WithoutInterface((kernel \cup added) \ gone, used)
               /\ abandoned' = abandoned \cup (added \ gone)
    BY <1>15 DEF Tun!RoutesWindows
  <2>3. kernel' \subseteq Tun!Routes /\ abandoned' \subseteq Tun!Routes
    BY <1>b, <1>e, <1>f, <2>2 DEF SlotType
  <2> QED BY <1>b, <2>1, <2>3 DEF SlotType
<1>16. CASE Tun!RoutesNone
  BY <1>16, <1>b, <1>c, <1>d, <1>e, <1>f, <1>g DEF Tun!RoutesNone, Tun!Continue, Tun!threadVars,
     Tun!slotVars, Tun!routeVars, Tun!flagVars, Tun!reportVars, SlotType
<1>17. CASE Tun!Publish
  BY <1>17, <1>b, <1>c, <1>d, <1>e, <1>f, <1>g DEF Tun!Publish, Tun!Return, Tun!threadVars,
     Tun!routeVars, SlotType
<1>18. CASE Tun!PublishProcessor
  BY <1>18, <1>b, <1>c, <1>d, <1>e, <1>f, <1>g DEF Tun!PublishProcessor, Tun!Continue,
     Tun!threadVars, Tun!routeVars, Tun!flagVars, Tun!reportVars, SlotType
<1>19. CASE Tun!PublishRoutes
  BY <1>19, <1>b, <1>c, <1>d, <1>e, <1>f, <1>g DEF Tun!PublishRoutes, Tun!Continue,
     Tun!threadVars, Tun!routeVars, Tun!flagVars, Tun!reportVars, SlotType, Tun!Capturing
<1>20. CASE Tun!PublishDevice
  BY <1>20, <1>b, <1>c, <1>d, <1>e, <1>f, <1>g DEF Tun!PublishDevice, Tun!Return, Tun!threadVars,
     Tun!routeVars, SlotType
<1>21. CASE Tun!SetVpnFd
  BY <1>21, <1>b, <1>c, <1>d, <1>e, <1>f, <1>g DEF Tun!SetVpnFd, Tun!callVars, Tun!threadVars,
     Tun!slotVars, Tun!routeVars, Tun!reportVars, SlotType
<1>22. CASE Tun!LegacyStopProcessor
  BY <1>22, <1>b, <1>c, <1>d, <1>e, <1>f, <1>g DEF Tun!LegacyStopProcessor, Tun!callVars,
     Tun!threadVars, Tun!routeVars, Tun!flagVars, SlotType
<1>23. CASE Tun!LegacyStopRoutes
  BY <1>23, <1>b, <1>c, <1>d, <1>e, <1>f, <1>g DEF Tun!LegacyStopRoutes, Tun!callVars,
     Tun!threadVars, SlotType
<1>24. CASE Tun!LegacyStopDevice
  BY <1>24, <1>b, <1>c, <1>d, <1>e, <1>f, <1>g DEF Tun!LegacyStopDevice, Tun!callVars,
     Tun!threadVars, SlotType
<1>25. ASSUME NEW g \in Tun!Gens, Tun!ReaderEnds(g) PROVE SlotType'
  BY <1>25, <1>b, <1>c, <1>d, <1>e, <1>f, <1>g DEF Tun!ReaderEnds, Tun!threadFrame, Tun!callVars,
     Tun!slotVars, Tun!routeVars, Tun!flagVars, Tun!reportVars, SlotType
<1>26. ASSUME NEW g \in Tun!Gens, Tun!WriterEnds(g) PROVE SlotType'
  BY <1>26, <1>b, <1>c, <1>d, <1>e, <1>f, <1>g DEF Tun!WriterEnds, Tun!threadFrame, Tun!callVars,
     Tun!slotVars, Tun!routeVars, Tun!flagVars, Tun!reportVars, SlotType
<1>27. ASSUME NEW g \in Tun!Gens, Tun!LoopEnds(g) PROVE SlotType'
  BY <1>27, <1>b, <1>c, <1>d, <1>e, <1>f, <1>g DEF Tun!LoopEnds, Tun!threadFrame, Tun!callVars,
     Tun!slotVars, Tun!routeVars, Tun!flagVars, Tun!reportVars, SlotType
<1>28. ASSUME NEW g \in Tun!Gens, Tun!ReaderFails(g) PROVE SlotType'
  BY <1>28, <1>b, <1>c, <1>d, <1>e, <1>f, <1>g DEF Tun!ReaderFails, Tun!threadFrame, Tun!callVars,
     Tun!slotVars, Tun!routeVars, Tun!flagVars, Tun!reportVars, SlotType
<1> QED
  BY <1>1, <1>2, <1>3, <1>4, <1>5, <1>6, <1>7, <1>8, <1>9, <1>10, <1>11, <1>12, <1>13, <1>14,
     <1>15, <1>16, <1>17, <1>18, <1>19, <1>20, <1>21, <1>22, <1>23,
     <1>24, <1>25, <1>26, <1>27, <1>28 DEF Tun!Next, Tun!Lifecycle, Tun!Threads

LEMMA CallStandsOn ==
  ASSUME Tun!TunAssumption, TunInv, Tun!Next
  PROVE CallStands'
<1>a. CallType /\ SlotType /\ CallStands BY DEF TunInv, TunType
<1>b. MaxEnable \in Nat BY DEF Tun!TunAssumption
<1>c. PlatformStands BY DEF TunInv
<1>1. ASSUME NEW m \in Modes, Tun!BeginEnable(m) PROVE CallStands'
  BY <1>1, <1>a, <1>b DEF Tun!BeginEnable, Tun!threadVars, Tun!slotVars, Tun!routeVars,
     Tun!flagVars, CallType, TunSteps, SlotType, CallStands, HasDevice, HasRoutes, Tun!Capturing
<1>2. ASSUME NEW m \in Modes, Tun!SetWindowsProxyMode(m) PROVE CallStands'
  BY <1>2, <1>a, <1>b DEF Tun!SetWindowsProxyMode, Tun!callVars, Tun!threadVars, CallType,
     TunSteps, SlotType, CallStands, HasDevice, HasRoutes, Tun!Capturing
<1>3. CASE Tun!BeginDisable
  BY <1>3, <1>a, <1>b DEF Tun!BeginDisable, Tun!threadVars, Tun!slotVars, Tun!routeVars,
     Tun!flagVars, CallType, TunSteps, SlotType, CallStands, HasDevice, HasRoutes, Tun!Capturing
<1>4. CASE Tun!CleanLinux
  BY <1>4, <1>a, <1>b DEF Tun!CleanLinux, Tun!Return, Tun!Continue, Tun!threadVars,
     Tun!reportVars, CallType, TunSteps, SlotType, CallStands, HasDevice, HasRoutes, Tun!Capturing
<1>5. CASE Tun!CleanWindows
  BY <1>5, <1>a, <1>b DEF Tun!CleanWindows, Tun!Return, Tun!Continue, Tun!threadVars,
     Tun!reportVars, CallType, TunSteps, SlotType, CallStands, HasDevice, HasRoutes, Tun!Capturing
<1>6. CASE Tun!CleanMobile
  BY <1>a, <1>b, <1>c, <1>6 DEF Tun!CleanMobile, Tun!Return, Tun!Continue, Tun!threadVars,
     Tun!routeVars, Tun!reportVars, CallType, TunSteps, SlotType, CallStands, PlatformStands,
     HasDevice, HasRoutes
<1>7. CASE Tun!StopMobile
  BY <1>7, <1>a, <1>b DEF Tun!StopMobile, Tun!Return, Tun!threadVars, Tun!routeVars, CallType,
     TunSteps, SlotType, CallStands, HasDevice, HasRoutes, Tun!Capturing
<1>8. CASE Tun!CheckFails
  BY <1>8, <1>a, <1>b DEF Tun!CheckFails, Tun!Return, Tun!threadVars, Tun!slotVars, Tun!routeVars,
     CallType, TunSteps, SlotType, CallStands, HasDevice, HasRoutes, Tun!Capturing
<1>9. CASE Tun!CheckPasses
  BY <1>9, <1>a, <1>b DEF Tun!CheckPasses, Tun!Continue, Tun!threadVars, Tun!slotVars,
     Tun!routeVars, Tun!reportVars, CallType, TunSteps, SlotType, CallStands, HasDevice,
     HasRoutes, Tun!Capturing
<1>10. CASE Tun!DeviceStarts
  BY <1>10, <1>a, <1>b DEF Tun!DeviceStarts, Tun!slotVars, Tun!routeVars, Tun!flagVars,
     Tun!reportVars, CallType, TunSteps, SlotType, CallStands, HasDevice, HasRoutes, Tun!Capturing
<1>11. CASE Tun!DeviceFails
  BY <1>11, <1>a, <1>b DEF Tun!DeviceFails, Tun!slotVars, Tun!routeVars, CallType, TunSteps,
     SlotType, CallStands, HasDevice, HasRoutes, Tun!Capturing
<1>12. CASE Tun!LoopSpawns
  BY <1>12, <1>a, <1>b DEF Tun!LoopSpawns, Tun!Continue, Tun!slotVars, Tun!routeVars,
     Tun!flagVars, Tun!reportVars, CallType, TunSteps, SlotType, CallStands, HasDevice, HasRoutes,
     Tun!Capturing
<1>13. CASE Tun!LoopSpawnFails
  BY <1>13, <1>a, <1>b DEF Tun!LoopSpawnFails, Tun!Return, Tun!Continue, Tun!threadVars,
     Tun!slotVars, Tun!routeVars, Tun!flagVars, Tun!reportVars, CallType, TunSteps, SlotType,
     CallStands, HasDevice, HasRoutes, Tun!Capturing
<1>14. CASE Tun!RoutesLinux
  BY <1>14, <1>a, <1>b DEF Tun!RoutesLinux, Tun!Return, Tun!threadVars, Tun!slotVars,
     Tun!flagVars, Tun!reportVars, CallType, TunSteps, SlotType, CallStands, HasDevice, HasRoutes,
     Tun!Capturing, Tun!Complete
<1>15. CASE Tun!RoutesWindows
  BY <1>15, <1>a, <1>b DEF Tun!RoutesWindows, Tun!Return, Tun!threadVars, Tun!slotVars,
     Tun!reportVars, CallType, TunSteps, SlotType, CallStands, HasDevice, HasRoutes,
     Tun!Capturing, Tun!Complete
<1>16. CASE Tun!RoutesNone
  BY <1>16, <1>a, <1>b DEF Tun!RoutesNone, Tun!Continue, Tun!threadVars, Tun!slotVars,
     Tun!routeVars, Tun!flagVars, Tun!reportVars, CallType, TunSteps, SlotType, CallStands,
     HasDevice, HasRoutes, Tun!Capturing, Tun!Complete
<1>17. CASE Tun!Publish
  BY <1>17, <1>a, <1>b DEF Tun!Publish, Tun!Return, Tun!threadVars, Tun!routeVars, CallType,
     TunSteps, SlotType, CallStands, HasDevice, HasRoutes, Tun!Capturing
<1>18. CASE Tun!PublishProcessor
  BY <1>18, <1>a, <1>b DEF Tun!PublishProcessor, Tun!Continue, Tun!threadVars, Tun!routeVars,
     Tun!flagVars, Tun!reportVars, CallType, TunSteps, SlotType, CallStands, HasDevice, HasRoutes,
     Tun!Capturing
<1>19. CASE Tun!PublishRoutes
  BY <1>19, <1>a, <1>b DEF Tun!PublishRoutes, Tun!Continue, Tun!threadVars, Tun!routeVars,
     Tun!flagVars, Tun!reportVars, CallType, TunSteps, SlotType, CallStands, HasDevice, HasRoutes,
     Tun!Capturing
<1>20. CASE Tun!PublishDevice
  BY <1>20, <1>a, <1>b DEF Tun!PublishDevice, Tun!Return, Tun!threadVars, Tun!routeVars, CallType,
     TunSteps, SlotType, CallStands, HasDevice, HasRoutes, Tun!Capturing
<1>21. CASE Tun!SetVpnFd
  BY <1>21, <1>a, <1>b DEF Tun!SetVpnFd, Tun!callVars, Tun!threadVars, Tun!slotVars,
     Tun!routeVars, Tun!reportVars, CallType, TunSteps, SlotType, CallStands, HasDevice,
     HasRoutes, Tun!Capturing
<1>22. CASE Tun!LegacyStopProcessor
  BY <1>22, <1>a, <1>b DEF Tun!LegacyStopProcessor, Tun!callVars, Tun!threadVars, Tun!routeVars,
     Tun!flagVars, CallType, TunSteps, SlotType, CallStands, HasDevice, HasRoutes, Tun!Capturing
<1>23. CASE Tun!LegacyStopRoutes
  BY <1>23, <1>a, <1>b DEF Tun!LegacyStopRoutes, Tun!callVars, Tun!threadVars, CallType, TunSteps,
     SlotType, CallStands, HasDevice, HasRoutes, Tun!Capturing
<1>24. CASE Tun!LegacyStopDevice
  BY <1>24, <1>a, <1>b DEF Tun!LegacyStopDevice, Tun!callVars, Tun!threadVars, CallType, TunSteps,
     SlotType, CallStands, HasDevice, HasRoutes, Tun!Capturing
<1>25. ASSUME NEW g \in Tun!Gens, Tun!ReaderEnds(g) PROVE CallStands'
  BY <1>25, <1>a, <1>b DEF Tun!ReaderEnds, Tun!threadFrame, Tun!callVars, Tun!slotVars,
     Tun!routeVars, Tun!flagVars, Tun!reportVars, CallType, TunSteps, SlotType, CallStands,
     HasDevice, HasRoutes, Tun!Capturing
<1>26. ASSUME NEW g \in Tun!Gens, Tun!WriterEnds(g) PROVE CallStands'
  BY <1>26, <1>a, <1>b DEF Tun!WriterEnds, Tun!threadFrame, Tun!callVars, Tun!slotVars,
     Tun!routeVars, Tun!flagVars, Tun!reportVars, CallType, TunSteps, SlotType, CallStands,
     HasDevice, HasRoutes, Tun!Capturing
<1>27. ASSUME NEW g \in Tun!Gens, Tun!LoopEnds(g) PROVE CallStands'
  BY <1>27, <1>a, <1>b DEF Tun!LoopEnds, Tun!threadFrame, Tun!callVars, Tun!slotVars,
     Tun!routeVars, Tun!flagVars, Tun!reportVars, CallType, TunSteps, SlotType, CallStands,
     HasDevice, HasRoutes, Tun!Capturing
<1>28. ASSUME NEW g \in Tun!Gens, Tun!ReaderFails(g) PROVE CallStands'
  BY <1>28, <1>a, <1>b DEF Tun!ReaderFails, Tun!threadFrame, Tun!callVars, Tun!slotVars,
     Tun!routeVars, Tun!flagVars, Tun!reportVars, CallType, TunSteps, SlotType, CallStands,
     HasDevice, HasRoutes, Tun!Capturing
<1> QED
  BY <1>1, <1>2, <1>3, <1>4, <1>5, <1>6, <1>7, <1>8, <1>9, <1>10, <1>11, <1>12, <1>13, <1>14,
     <1>15, <1>16, <1>17, <1>18, <1>19, <1>20, <1>21, <1>22, <1>23,
     <1>24, <1>25, <1>26, <1>27, <1>28 DEF Tun!Next, Tun!Lifecycle, Tun!Threads

LEMMA PlatformStandsOn ==
  ASSUME Tun!TunAssumption, TunInv, Tun!Next
  PROVE PlatformStands'
<1>a. PlatformStands /\ CallStands /\ RoutesOwned BY DEF TunInv
<1>1. ASSUME NEW m \in Modes, Tun!BeginEnable(m) PROVE PlatformStands'
  BY <1>1, <1>a DEF Tun!BeginEnable, Tun!threadVars, Tun!slotVars, Tun!routeVars, Tun!flagVars,
     PlatformStands, CallStands
<1>2. ASSUME NEW m \in Modes, Tun!SetWindowsProxyMode(m) PROVE PlatformStands'
  BY <1>2, <1>a DEF Tun!SetWindowsProxyMode, Tun!callVars, Tun!threadVars, PlatformStands,
     CallStands
<1>3. CASE Tun!BeginDisable
  BY <1>3, <1>a DEF Tun!BeginDisable, Tun!threadVars, Tun!slotVars, Tun!routeVars, Tun!flagVars,
     PlatformStands, CallStands
<1>4. CASE Tun!CleanLinux
  BY <1>4, <1>a DEF Tun!CleanLinux, Tun!Return, Tun!Continue, Tun!threadVars, Tun!reportVars,
     PlatformStands, CallStands
<1>5. CASE Tun!CleanWindows
  BY <1>5, <1>a DEF Tun!CleanWindows, Tun!Return, Tun!Continue, Tun!threadVars, Tun!reportVars,
     PlatformStands, CallStands
<1>6. CASE Tun!CleanMobile
  BY <1>6, <1>a DEF Tun!CleanMobile, Tun!Return, Tun!Continue, Tun!threadVars, Tun!routeVars,
     Tun!reportVars, PlatformStands, CallStands, RoutesOwned, Tun!NoManager
<1>7. CASE Tun!StopMobile
  BY <1>7, <1>a DEF Tun!StopMobile, Tun!Return, Tun!threadVars, Tun!routeVars, PlatformStands,
     CallStands
<1>8. CASE Tun!CheckFails
  BY <1>8, <1>a DEF Tun!CheckFails, Tun!Return, Tun!threadVars, Tun!slotVars, Tun!routeVars,
     PlatformStands, CallStands
<1>9. CASE Tun!CheckPasses
  BY <1>9, <1>a DEF Tun!CheckPasses, Tun!Continue, Tun!threadVars, Tun!slotVars, Tun!routeVars,
     Tun!reportVars, PlatformStands, CallStands, Tun!SavesResolvers
<1>10. CASE Tun!DeviceStarts
  BY <1>10, <1>a DEF Tun!DeviceStarts, Tun!slotVars, Tun!routeVars, Tun!flagVars, Tun!reportVars,
     PlatformStands, CallStands
<1>11. CASE Tun!DeviceFails
  BY <1>11, <1>a DEF Tun!DeviceFails, Tun!slotVars, Tun!routeVars, PlatformStands, CallStands
<1>12. CASE Tun!LoopSpawns
  BY <1>12, <1>a DEF Tun!LoopSpawns, Tun!Continue, Tun!slotVars, Tun!routeVars, Tun!flagVars,
     Tun!reportVars, PlatformStands, CallStands
<1>13. CASE Tun!LoopSpawnFails
  BY <1>13, <1>a DEF Tun!LoopSpawnFails, Tun!Return, Tun!Continue, Tun!threadVars, Tun!slotVars,
     Tun!routeVars, Tun!flagVars, Tun!reportVars, PlatformStands, CallStands
<1>14. CASE Tun!RoutesLinux
  BY <1>14, <1>a DEF Tun!RoutesLinux, Tun!Return, Tun!threadVars, Tun!slotVars, Tun!flagVars,
     Tun!reportVars, PlatformStands, CallStands
<1>15. CASE Tun!RoutesWindows
  BY <1>15, <1>a DEF Tun!RoutesWindows, Tun!Return, Tun!threadVars, Tun!slotVars, Tun!reportVars,
     PlatformStands, CallStands
<1>16. CASE Tun!RoutesNone
  BY <1>16, <1>a DEF Tun!RoutesNone, Tun!Continue, Tun!threadVars, Tun!slotVars, Tun!routeVars,
     Tun!flagVars, Tun!reportVars, PlatformStands, CallStands
<1>17. CASE Tun!Publish
  BY <1>17, <1>a DEF Tun!Publish, Tun!Return, Tun!threadVars, Tun!routeVars, PlatformStands,
     CallStands, RoutesOwned, Tun!NoManager
<1>18. CASE Tun!PublishProcessor
  BY <1>18, <1>a DEF Tun!PublishProcessor, Tun!Continue, Tun!threadVars, Tun!routeVars,
     Tun!flagVars, Tun!reportVars, PlatformStands, CallStands
<1>19. CASE Tun!PublishRoutes
  BY <1>19, <1>a DEF Tun!PublishRoutes, Tun!Continue, Tun!threadVars, Tun!routeVars, Tun!flagVars,
     Tun!reportVars, PlatformStands, CallStands
<1>20. CASE Tun!PublishDevice
  BY <1>20, <1>a DEF Tun!PublishDevice, Tun!Return, Tun!threadVars, Tun!routeVars, PlatformStands,
     CallStands
<1>21. CASE Tun!SetVpnFd
  BY <1>21, <1>a DEF Tun!SetVpnFd, Tun!callVars, Tun!threadVars, Tun!slotVars, Tun!routeVars,
     Tun!reportVars, PlatformStands, CallStands
<1>22. CASE Tun!LegacyStopProcessor
  BY <1>22, <1>a DEF Tun!LegacyStopProcessor, Tun!callVars, Tun!threadVars, Tun!routeVars,
     Tun!flagVars, PlatformStands, CallStands, Tun!NoManager, Tun!WithoutInterface
<1>23. CASE Tun!LegacyStopRoutes
  BY <1>23, <1>a DEF Tun!LegacyStopRoutes, Tun!callVars, Tun!threadVars, PlatformStands,
     CallStands, Tun!NoManager, Tun!WithoutInterface
<1>24. CASE Tun!LegacyStopDevice
  BY <1>24, <1>a DEF Tun!LegacyStopDevice, Tun!callVars, Tun!threadVars, PlatformStands,
     CallStands, Tun!NoManager, Tun!WithoutInterface
<1>25. ASSUME NEW g \in Tun!Gens, Tun!ReaderEnds(g) PROVE PlatformStands'
  BY <1>25, <1>a DEF Tun!ReaderEnds, Tun!threadFrame, Tun!callVars, Tun!slotVars, Tun!routeVars,
     Tun!flagVars, Tun!reportVars, PlatformStands, CallStands
<1>26. ASSUME NEW g \in Tun!Gens, Tun!WriterEnds(g) PROVE PlatformStands'
  BY <1>26, <1>a DEF Tun!WriterEnds, Tun!threadFrame, Tun!callVars, Tun!slotVars, Tun!routeVars,
     Tun!flagVars, Tun!reportVars, PlatformStands, CallStands
<1>27. ASSUME NEW g \in Tun!Gens, Tun!LoopEnds(g) PROVE PlatformStands'
  BY <1>27, <1>a DEF Tun!LoopEnds, Tun!threadFrame, Tun!callVars, Tun!slotVars, Tun!routeVars,
     Tun!flagVars, Tun!reportVars, PlatformStands, CallStands
<1>28. ASSUME NEW g \in Tun!Gens, Tun!ReaderFails(g) PROVE PlatformStands'
  BY <1>28, <1>a DEF Tun!ReaderFails, Tun!threadFrame, Tun!callVars, Tun!slotVars, Tun!routeVars,
     Tun!flagVars, Tun!reportVars, PlatformStands, CallStands
<1> QED
  BY <1>1, <1>2, <1>3, <1>4, <1>5, <1>6, <1>7, <1>8, <1>9, <1>10, <1>11, <1>12, <1>13, <1>14,
     <1>15, <1>16, <1>17, <1>18, <1>19, <1>20, <1>21, <1>22, <1>23,
     <1>24, <1>25, <1>26, <1>27, <1>28 DEF Tun!Next, Tun!Lifecycle, Tun!Threads

\* No device is open and no processor runs.
NothingRuns == \A g \in Tun!Gens : ~dev[g].open /\ processor[g] # "run"

LEMMA NothingIsOwned ==
  ASSUME NothingRuns', step' \notin {"thread", "routes", "publish", "publishRoutes", "publishDevice"}
  PROVE DevicesOwned'
BY DEF NothingRuns, DevicesOwned, HasDevice

\* What a call takes down before it starts is all there is.
LEMMA CleanTakesAll ==
  ASSUME TunType, DevicesOwned, step = "clean"
  PROVE \A g \in Tun!Gens : ~Tun!TakeDevice(devSlot)[g].open /\ Tun!StopProcessor(procSlot)[g] # "run"
<1>1. devSlot \in 0 .. MaxEnable /\ procSlot \in 0 .. MaxEnable BY DEF TunType, SlotType
<1> QED BY <1>1, TakeDeviceIs, StopProcessorIs DEF DevicesOwned, HasDevice, HasProcessor

\* A call that fails drops a device of its own, and there is no other.
LEMMA FailureTakesAll ==
  ASSUME TunType, DevicesOwned, CallStands, step \in {"thread", "routes"}, ~dev'[used].open,
         \A g \in Tun!Gens : g # used => dev'[g] = dev[g],
         processor'[used] # "run", \A g \in Tun!Gens : g # used => processor'[g] = processor[g]
  PROVE NothingRuns'
BY DEF TunType, SlotType, CallStands, DevicesOwned, HasDevice, HasProcessor, NothingRuns, Tun!Gens

\* The device of a call that is dropped, or stopped and dropped.
LEMMA DropOwn ==
  ASSUME TunType, CallStands, step \in {"thread", "routes"}
  PROVE /\ used \in Tun!Gens /\ used \in 0 .. MaxEnable
        /\ LET d == [dev EXCEPT ![used] = Tun!DropDevice(@)]
           IN  ~d[used].open /\ \A g \in Tun!Gens : g # used => d[g] = dev[g]
        /\ LET d == [dev EXCEPT ![used] = Tun!DropDevice(Tun!StopDevice(@))]
           IN  ~d[used].open /\ \A g \in Tun!Gens : g # used => d[g] = dev[g]
        /\ Tun!StopProcessor(used)[used] # "run"
        /\ \A g \in Tun!Gens : g # used => Tun!StopProcessor(used)[g] = processor[g]
<1>1. used \in Tun!Gens /\ used \in 0 .. MaxEnable
  BY DEF TunType, CallType, CallStands, HasDevice, Tun!Gens
<1>2. dev \in [Tun!Gens -> [open : BOOLEAN, running : BOOLEAN, cancelled : BOOLEAN]]
  BY DEF TunType, DeviceType
<1>3. ~Tun!DropDevice(dev[used]).open /\ ~Tun!DropDevice(Tun!StopDevice(dev[used])).open
  BY <1>1, <1>2, DropDeviceIs
<1> QED BY <1>1, <1>2, <1>3, StopProcessorIs

LEMMA DevicesOwnedOn ==
  ASSUME Tun!TunAssumption, TunInv, Tun!Next
  PROVE DevicesOwned'
<1>a. TunType /\ DevicesOwned /\ CallStands /\ PlatformStands BY DEF TunInv
<1>b. DeviceType /\ used \in 0 .. MaxEnable /\ MaxEnable \in Nat
  BY <1>a DEF TunType, CallType, Tun!TunAssumption
<1>c. /\ \A g \in Tun!Gens : g # devSlot => Tun!TakeDevice(devSlot)[g] = dev[g]
      /\ \A g \in Tun!Gens : g = devSlot => ~Tun!TakeDevice(devSlot)[g].open
  BY <1>a, TakeDeviceIs DEF TunType, SlotType
<1>d. \A s \in 0 .. MaxEnable :
        \A g \in Tun!Gens : Tun!StopProcessor(s)[g] = IF g = s THEN "stopped" ELSE processor[g]
  BY <1>a, StopProcessorIs
<1>e. \A d \in [open : BOOLEAN, running : BOOLEAN, cancelled : BOOLEAN] :
        /\ ~Tun!DropDevice(d).open
        /\ ~Tun!DropDevice(Tun!StopDevice(d)).open
  BY DropDeviceIs
<1>f. devSlot \in 0 .. MaxEnable /\ procSlot \in 0 .. MaxEnable BY <1>a DEF TunType, SlotType
<1>g. \A g \in Tun!Gens : g \in 1 .. MaxEnable BY DEF Tun!Gens
<1>1. ASSUME NEW m \in Modes, Tun!BeginEnable(m) PROVE DevicesOwned'
  BY <1>1, <1>a, <1>b DEF Tun!BeginEnable, Tun!threadVars, Tun!slotVars, Tun!routeVars,
     Tun!flagVars, DevicesOwned, HasDevice, HasProcessor, CallStands
<1>2. ASSUME NEW m \in Modes, Tun!SetWindowsProxyMode(m) PROVE DevicesOwned'
  BY <1>2, <1>a, <1>b DEF Tun!SetWindowsProxyMode, Tun!callVars, Tun!threadVars, DevicesOwned,
     HasDevice, HasProcessor, CallStands
<1>3. CASE Tun!BeginDisable
  BY <1>3, <1>a, <1>b DEF Tun!BeginDisable, Tun!threadVars, Tun!slotVars, Tun!routeVars,
     Tun!flagVars, DevicesOwned, HasDevice, HasProcessor, CallStands
<1>4. CASE Tun!CleanLinux
  BY <1>a, <1>4, CleanTakesAll, NothingIsOwned DEF Tun!CleanLinux, Tun!Return, Tun!Continue,
     NothingRuns
<1>5. CASE Tun!CleanWindows
  <2>1. CASE UNCHANGED <<devSlot, procSlot, dev, processor>>
    BY <1>a, <1>5, <2>1 DEF Tun!CleanWindows, Tun!Return, Tun!Continue, Tun!threadVars,
       Tun!reportVars, DevicesOwned, HasDevice, HasProcessor
  <2>2. CASE dev' = Tun!TakeDevice(devSlot) /\ processor' = Tun!StopProcessor(procSlot)
    BY <1>a, <1>5, <2>2, CleanTakesAll, NothingIsOwned DEF Tun!CleanWindows, Tun!Return,
       Tun!Continue, NothingRuns
  <2> QED BY <1>5, <2>1, <2>2 DEF Tun!CleanWindows, Tun!Return
<1>6. CASE Tun!CleanMobile
  <2>1. CASE UNCHANGED <<devSlot, procSlot, dev, processor>> /\ step' = "idle"
    BY <1>a, <1>6, <2>1 DEF Tun!CleanMobile, Tun!Return, Tun!Continue, Tun!threadVars,
       Tun!routeVars, Tun!reportVars, DevicesOwned, HasDevice, HasProcessor, PlatformStands
  <2>2. CASE dev' = Tun!TakeDevice(devSlot) /\ processor' = Tun!StopProcessor(procSlot)
    BY <1>a, <1>6, <2>2, CleanTakesAll, NothingIsOwned DEF Tun!CleanMobile, Tun!Return,
       Tun!Continue, NothingRuns
  <2> QED BY <1>6, <2>1, <2>2 DEF Tun!CleanMobile, Tun!Return
<1>7. CASE Tun!StopMobile
  BY <1>a, <1>7, CleanTakesAll, NothingIsOwned DEF Tun!StopMobile, Tun!Return, NothingRuns
<1>8. CASE Tun!CheckFails
  BY <1>8, <1>a, <1>b DEF Tun!CheckFails, Tun!Return, Tun!threadVars, Tun!slotVars, Tun!routeVars,
     DevicesOwned, HasDevice, HasProcessor, CallStands, DeviceType
<1>9. CASE Tun!CheckPasses
  BY <1>9, <1>a, <1>b DEF Tun!CheckPasses, Tun!Continue, Tun!threadVars, Tun!slotVars,
     Tun!routeVars, Tun!reportVars, DevicesOwned, HasDevice, HasProcessor, CallStands
<1>10. CASE Tun!DeviceStarts
  BY <1>10, <1>a, <1>b, <1>g DEF Tun!DeviceStarts, Tun!slotVars, Tun!routeVars, Tun!flagVars,
     Tun!reportVars, DevicesOwned, HasDevice, HasProcessor, CallStands, DeviceType,
     Tun!StartedDevice, Tun!Gens
<1>11. CASE Tun!DeviceFails
  BY <1>11, <1>a, <1>b, <1>d, <1>e, <1>g DEF Tun!DeviceFails, Tun!slotVars, Tun!routeVars,
     DevicesOwned, HasDevice, HasProcessor, CallStands, DeviceType
<1>12. CASE Tun!LoopSpawns
  BY <1>12, <1>a, <1>b, <1>g DEF Tun!LoopSpawns, Tun!Continue, Tun!slotVars, Tun!routeVars,
     Tun!flagVars, Tun!reportVars, DevicesOwned, HasDevice, HasProcessor, CallStands, DeviceType
<1>13. CASE Tun!LoopSpawnFails
  <2>1. CASE os = "windows"
    BY <1>a, <1>b, <1>g, <1>13, <2>1 DEF Tun!LoopSpawnFails, Tun!Return, Tun!Continue,
       Tun!threadVars, Tun!slotVars, Tun!routeVars, Tun!flagVars, Tun!reportVars, DevicesOwned,
       HasDevice, HasProcessor, CallStands, DeviceType
  <2>2. CASE os # "windows"
    <3>1. NothingRuns'
      <4>1. dev' = [dev EXCEPT ![used] = Tun!DropDevice(@)] /\ processor' = [processor EXCEPT ![used] = "stopped"]
        BY <1>13, <2>2 DEF Tun!LoopSpawnFails
      <4>2. step \in {"thread", "routes"} BY <1>13 DEF Tun!LoopSpawnFails
      <4>3. processor'[used] # "run" /\ \A g \in Tun!Gens : g # used => processor'[g] = processor[g]
        BY <1>a, <1>b, <4>1, <4>2, DropOwn DEF DeviceType
      <4> QED BY <1>a, <4>1, <4>2, <4>3, DropOwn, FailureTakesAll
    <3> QED BY <1>13, <2>2, <3>1, NothingIsOwned DEF Tun!LoopSpawnFails, Tun!Return
  <2> QED BY <2>1, <2>2
<1>14. CASE Tun!RoutesLinux
  <2>1. CASE UNCHANGED <<dev, processor>> /\ step' = "publish"
    BY <1>a, <1>14, <2>1 DEF Tun!RoutesLinux, Tun!Return, Tun!threadVars, Tun!slotVars,
       Tun!flagVars, Tun!reportVars, DevicesOwned, HasDevice, HasProcessor
  <2>2. CASE /\ dev' = [dev EXCEPT ![used] = Tun!DropDevice(Tun!StopDevice(@))]
             /\ processor' = Tun!StopProcessor(used) /\ step' = "idle"
    <3>1. step = "routes" BY <1>14 DEF Tun!RoutesLinux
    <3>2. NothingRuns' BY <1>a, <2>2, <3>1, DropOwn, FailureTakesAll
    <3> QED BY <2>2, <3>2, NothingIsOwned
  <2> QED BY <1>14, <2>1, <2>2 DEF Tun!RoutesLinux, Tun!Return
<1>15. CASE Tun!RoutesWindows
  <2>1. CASE UNCHANGED <<dev, processor>> /\ step' = "publish"
    BY <1>a, <1>15, <2>1 DEF Tun!RoutesWindows, Tun!Return, Tun!threadVars, Tun!slotVars,
       Tun!reportVars, DevicesOwned, HasDevice, HasProcessor
  <2>2. CASE /\ dev' = [dev EXCEPT ![used] = Tun!DropDevice(Tun!StopDevice(@))]
             /\ processor' = Tun!StopProcessor(used) /\ step' = "idle"
    <3>1. step = "routes" BY <1>15 DEF Tun!RoutesWindows
    <3>2. NothingRuns' BY <1>a, <2>2, <3>1, DropOwn, FailureTakesAll
    <3> QED BY <2>2, <3>2, NothingIsOwned
  <2> QED BY <1>15, <2>1, <2>2 DEF Tun!RoutesWindows, Tun!Return
<1>16. CASE Tun!RoutesNone
  BY <1>16, <1>a, <1>b DEF Tun!RoutesNone, Tun!Continue, Tun!threadVars, Tun!slotVars,
     Tun!routeVars, Tun!flagVars, Tun!reportVars, DevicesOwned, HasDevice, HasProcessor, CallStands
<1>17. CASE Tun!Publish
  <2>1. UNCHANGED <<dev, processor, reader, used>>
    BY <1>17 DEF Tun!Publish, Tun!Return, Tun!threadVars, Tun!routeVars
  <2>2. devSlot' = used /\ procSlot' = used /\ step' = "idle" /\ step = "publish"
    BY <1>17 DEF Tun!Publish, Tun!Return, Tun!threadVars, Tun!routeVars
  <2>3. devSlot = 0 /\ procSlot = 0 BY <1>a, <2>2 DEF CallStands
  <2>4. \A g \in Tun!Gens : g # 0 BY <1>b, <1>g
  <2> QED BY <1>a, <2>1, <2>2, <2>3, <2>4 DEF DevicesOwned, HasDevice, HasProcessor
<1>18. CASE Tun!PublishProcessor
  <2>1. UNCHANGED <<dev, processor, reader, used>>
    BY <1>18 DEF Tun!PublishProcessor, Tun!Continue, Tun!threadVars, Tun!routeVars, Tun!flagVars,
       Tun!reportVars
  <2>2. devSlot' = devSlot /\ procSlot' = used /\ step' = "publishRoutes" /\ step = "publish"
    BY <1>18 DEF Tun!PublishProcessor, Tun!Continue, Tun!threadVars, Tun!routeVars, Tun!flagVars,
       Tun!reportVars
  <2>3. devSlot = 0 /\ procSlot = 0 BY <1>a, <2>2 DEF CallStands
  <2>4. \A g \in Tun!Gens : g # 0 BY <1>b, <1>g
  <2> QED BY <1>a, <2>1, <2>2, <2>3, <2>4 DEF DevicesOwned, HasDevice, HasProcessor
<1>19. CASE Tun!PublishRoutes
  BY <1>19, <1>a, <1>b DEF Tun!PublishRoutes, Tun!Continue, Tun!threadVars, Tun!routeVars,
     Tun!flagVars, Tun!reportVars, DevicesOwned, HasDevice, HasProcessor, CallStands
<1>20. CASE Tun!PublishDevice
  <2>1. UNCHANGED <<dev, processor, reader, used>>
    BY <1>20 DEF Tun!PublishDevice, Tun!Return, Tun!threadVars, Tun!routeVars
  <2>2. devSlot' = used /\ procSlot' = procSlot /\ step' = "idle" /\ step = "publishDevice"
    BY <1>20 DEF Tun!PublishDevice, Tun!Return, Tun!threadVars, Tun!routeVars
  <2>3. devSlot = 0 BY <1>a, <2>2 DEF CallStands
  <2>4. \A g \in Tun!Gens : g # 0 BY <1>b, <1>g
  <2> QED BY <1>a, <2>1, <2>2, <2>3, <2>4 DEF DevicesOwned, HasDevice, HasProcessor
<1>21. CASE Tun!SetVpnFd
  BY <1>21, <1>a, <1>b DEF Tun!SetVpnFd, Tun!callVars, Tun!threadVars, Tun!slotVars,
     Tun!routeVars, Tun!reportVars, DevicesOwned, HasDevice, HasProcessor, CallStands
<1>22. CASE Tun!LegacyStopProcessor
  BY <1>22, <1>a, <1>b, <1>d, <1>f, <1>g DEF Tun!LegacyStopProcessor, Tun!callVars,
     Tun!threadVars, Tun!routeVars, Tun!flagVars, DevicesOwned, HasDevice, HasProcessor, CallStands
<1>23. CASE Tun!LegacyStopRoutes
  BY <1>23, <1>a, <1>b DEF Tun!LegacyStopRoutes, Tun!callVars, Tun!threadVars, DevicesOwned,
     HasDevice, HasProcessor, CallStands
<1>24. CASE Tun!LegacyStopDevice
  <2>1. UNCHANGED <<step, used, processor, procSlot, reader>> /\ dev' = Tun!TakeDevice(devSlot) /\ devSlot' = 0
    BY <1>24 DEF Tun!LegacyStopDevice, Tun!callVars, Tun!threadVars
  <2>2. HasDevice => devSlot = 0 /\ used \in Tun!Gens
    BY <1>a, <1>b DEF CallStands, HasDevice, Tun!Gens
  <2>3. \A g \in Tun!Gens : g # 0 BY <1>b, <1>g
  <2> QED BY <1>a, <1>c, <2>1, <2>2, <2>3 DEF DevicesOwned, HasDevice, HasProcessor
<1>25. ASSUME NEW g \in Tun!Gens, Tun!ReaderEnds(g) PROVE DevicesOwned'
  BY <1>25, <1>a, <1>b DEF Tun!ReaderEnds, Tun!threadFrame, Tun!callVars, Tun!slotVars,
     Tun!routeVars, Tun!flagVars, Tun!reportVars, DevicesOwned, HasDevice, HasProcessor,
     CallStands, DeviceType
<1>26. ASSUME NEW g \in Tun!Gens, Tun!WriterEnds(g) PROVE DevicesOwned'
  BY <1>26, <1>a, <1>b DEF Tun!WriterEnds, Tun!threadFrame, Tun!callVars, Tun!slotVars,
     Tun!routeVars, Tun!flagVars, Tun!reportVars, DevicesOwned, HasDevice, HasProcessor,
     CallStands, DeviceType
<1>27. ASSUME NEW g \in Tun!Gens, Tun!LoopEnds(g) PROVE DevicesOwned'
  BY <1>27, <1>a, <1>b, <1>d, <1>f, <1>g DEF Tun!LoopEnds, Tun!threadFrame, Tun!callVars,
     Tun!slotVars, Tun!routeVars, Tun!flagVars, Tun!reportVars, DevicesOwned, HasDevice,
     HasProcessor, CallStands, DeviceType
<1>28. ASSUME NEW g \in Tun!Gens, Tun!ReaderFails(g) PROVE DevicesOwned'
  BY <1>28, <1>a, <1>b DEF Tun!ReaderFails, Tun!threadFrame, Tun!callVars, Tun!slotVars,
     Tun!routeVars, Tun!flagVars, Tun!reportVars, DevicesOwned, HasDevice, HasProcessor,
     CallStands, DeviceType
<1> QED
  BY <1>1, <1>2, <1>3, <1>4, <1>5, <1>6, <1>7, <1>8, <1>9, <1>10, <1>11, <1>12, <1>13, <1>14,
     <1>15, <1>16, <1>17, <1>18, <1>19, <1>20, <1>21, <1>22, <1>23,
     <1>24, <1>25, <1>26, <1>27, <1>28 DEF Tun!Next, Tun!Lifecycle, Tun!Threads

LEMMA RoutesOwnedOn ==
  ASSUME Tun!TunAssumption, TunInv, Tun!Next
  PROVE RoutesOwned'
<1>a. RoutesOwned /\ CallStands /\ PlatformStands /\ SlotType BY DEF TunInv, TunType
<1>b. Tun!NoManager.added = {} /\ ~Tun!NoManager.active /\ ~Tun!NoManager.held BY DEF Tun!NoManager
<1>c. \A gone \in SUBSET managed.added : LET left == Tun!DisableGlobalMode(managed, gone)
        IN left.added = managed.added \ gone /\ (left.active <=> left.added # {}) /\ (left.active => managed.active)
  BY DisableGlobalModeIs DEF TunInv
<1>d. \A t, s : /\ Tun!WithoutInterface(t, s) \subseteq t
                /\ s # 0 => Tun!WithoutInterface(t, s) \cap Tun!Capture = {}
                /\ s = 0 => Tun!WithoutInterface(t, s) = t
  BY WithoutInterfaceIs
<1>1. ASSUME NEW m \in Modes, Tun!BeginEnable(m) PROVE RoutesOwned'
  BY <1>1, <1>a, <1>b DEF Tun!BeginEnable, Tun!threadVars, Tun!slotVars, Tun!routeVars,
     Tun!flagVars, RoutesOwned, HasRoutes, CallStands, Tun!Capturing
<1>2. ASSUME NEW m \in Modes, Tun!SetWindowsProxyMode(m) PROVE RoutesOwned'
  BY <1>2, <1>a, <1>b, <1>c DEF Tun!SetWindowsProxyMode, Tun!callVars, Tun!threadVars,
     RoutesOwned, HasRoutes, CallStands, Tun!Capturing
<1>3. CASE Tun!BeginDisable
  BY <1>3, <1>a, <1>b DEF Tun!BeginDisable, Tun!threadVars, Tun!slotVars, Tun!routeVars,
     Tun!flagVars, RoutesOwned, HasRoutes, CallStands, Tun!Capturing
<1>4. CASE Tun!CleanLinux
  <2>1. PICK gone \in SUBSET managed.added :
          /\ kernel' = Tun!WithoutInterface(kernel \ gone, devSlot)
          /\ abandoned' = abandoned \cup (managed.added \ gone)
    BY <1>4 DEF Tun!CleanLinux
  <2>2. /\ managed' = Tun!NoManager /\ devSlot' = 0 /\ step' \in {"idle", "check"}
        /\ step = "clean" /\ pinned' = pinned /\ os = "linux"
    BY <1>4 DEF Tun!CleanLinux, Tun!Return, Tun!Continue
  <2>3. kernel' \subseteq abandoned' BY <1>a, <1>d, <2>1, <2>2 DEF RoutesOwned, HasRoutes
  <2>4. kernel' \cap Tun!Capture = {} BY <1>a, <1>d, <2>1, <2>2 DEF RoutesOwned
  <2>5. ~pinned BY <1>a, <2>2 DEF PlatformStands
  <2> QED BY <1>b, <2>2, <2>3, <2>4, <2>5 DEF RoutesOwned, HasRoutes
<1>5. CASE Tun!CleanWindows
  BY <1>5, <1>a, <1>b, <1>d, <1>c DEF Tun!CleanWindows, Tun!Return, Tun!Continue, Tun!threadVars,
     Tun!reportVars, RoutesOwned, HasRoutes, CallStands, Tun!Capturing
<1>6. CASE Tun!CleanMobile
  BY <1>6, <1>a, <1>b DEF Tun!CleanMobile, Tun!Return, Tun!Continue, Tun!threadVars,
     Tun!routeVars, Tun!reportVars, RoutesOwned, HasRoutes, CallStands, Tun!Capturing,
     PlatformStands
<1>7. CASE Tun!StopMobile
  BY <1>7, <1>a, <1>b DEF Tun!StopMobile, Tun!Return, Tun!threadVars, Tun!routeVars, RoutesOwned,
     HasRoutes, CallStands, Tun!Capturing, PlatformStands
<1>8. CASE Tun!CheckFails
  BY <1>8, <1>a, <1>b DEF Tun!CheckFails, Tun!Return, Tun!threadVars, Tun!slotVars, Tun!routeVars,
     RoutesOwned, HasRoutes, CallStands, Tun!Capturing
<1>9. CASE Tun!CheckPasses
  BY <1>9, <1>a, <1>b DEF Tun!CheckPasses, Tun!Continue, Tun!threadVars, Tun!slotVars,
     Tun!routeVars, Tun!reportVars, RoutesOwned, HasRoutes, CallStands, Tun!Capturing
<1>10. CASE Tun!DeviceStarts
  BY <1>10, <1>a, <1>b DEF Tun!DeviceStarts, Tun!slotVars, Tun!routeVars, Tun!flagVars,
     Tun!reportVars, RoutesOwned, HasRoutes, CallStands, Tun!Capturing
<1>11. CASE Tun!DeviceFails
  BY <1>11, <1>a, <1>b DEF Tun!DeviceFails, Tun!slotVars, Tun!routeVars, RoutesOwned, HasRoutes,
     CallStands, Tun!Capturing
<1>12. CASE Tun!LoopSpawns
  BY <1>12, <1>a, <1>b DEF Tun!LoopSpawns, Tun!Continue, Tun!slotVars, Tun!routeVars,
     Tun!flagVars, Tun!reportVars, RoutesOwned, HasRoutes, CallStands, Tun!Capturing
<1>13. CASE Tun!LoopSpawnFails
  BY <1>13, <1>a, <1>b DEF Tun!LoopSpawnFails, Tun!Return, Tun!Continue, Tun!threadVars,
     Tun!slotVars, Tun!routeVars, Tun!flagVars, Tun!reportVars, RoutesOwned, HasRoutes,
     CallStands, Tun!Capturing
<1>14. CASE Tun!RoutesLinux
  <2>1. step = "routes" /\ managed = Tun!NoManager /\ kernel \subseteq abandoned
    BY <1>a, <1>b, <1>14 DEF Tun!RoutesLinux, CallStands, RoutesOwned, HasRoutes
  <2>2. UNCHANGED <<os, want, used, managed, devSlot>>
    BY <1>14 DEF Tun!RoutesLinux, Tun!slotVars, Tun!Return
  <2>3. used # 0 BY <1>a, <2>1 DEF CallStands, HasDevice
  <2>4. Tun!Capturing BY <1>a, <2>1, <1>14 DEF Tun!RoutesLinux, CallStands
  <2>5. PICK added \in Tun!Installed(kernel) :
          \/ /\ local' = added /\ kernel' = kernel \cup added /\ abandoned' = abandoned
             /\ step' = "publish"
          \/ \E gone \in SUBSET added :
               /\ kernel' = Tun!WithoutInterface((kernel \cup added) \ gone, used)
               /\ abandoned' = abandoned \cup (added \ gone)
               /\ step' = "idle" /\ pinned' = pinned
    BY <1>14 DEF Tun!RoutesLinux, Tun!Return, Tun!flagVars
  <2>6. kernel' \subseteq managed'.added \cup abandoned' \cup (IF HasRoutes' THEN local' ELSE {})
    BY <1>d, <2>1, <2>2, <2>5 DEF HasRoutes
  <2>7. kernel' \cap Tun!Capture # {} => step' = "publish" BY <1>d, <2>3, <2>5
  <2>8. pinned' => abandoned' # {} \/ step' = "publish"
    BY <1>a, <1>b, <2>1, <2>5, <1>14 DEF RoutesOwned, HasRoutes, Tun!RoutesLinux, Tun!flagVars
  <2> QED BY <1>b, <2>1, <2>2, <2>4, <2>6, <2>7, <2>8 DEF RoutesOwned, HasRoutes, Tun!Capturing
<1>15. CASE Tun!RoutesWindows
  <2>1. step = "routes" /\ managed = Tun!NoManager /\ kernel \subseteq abandoned
    BY <1>a, <1>b, <1>15 DEF Tun!RoutesWindows, CallStands, RoutesOwned, HasRoutes
  <2>2. UNCHANGED <<os, want, used, managed, devSlot>>
    BY <1>15 DEF Tun!RoutesWindows, Tun!slotVars, Tun!Return
  <2>3. used # 0 BY <1>a, <2>1 DEF CallStands, HasDevice
  <2>4. Tun!Capturing BY <1>a, <2>1, <1>15 DEF Tun!RoutesWindows, CallStands
  <2>5. PICK added \in Tun!Installed(kernel) :
          \/ /\ local' = added /\ kernel' = kernel \cup added /\ abandoned' = abandoned
             /\ step' = "publish"
          \/ \E gone \in SUBSET added :
               /\ kernel' = Tun!WithoutInterface((kernel \cup added) \ gone, used)
               /\ abandoned' = abandoned \cup (added \ gone)
               /\ step' = "idle" /\ pinned' = IF added = gone THEN FALSE ELSE TRUE
    BY <1>15 DEF Tun!RoutesWindows, Tun!Return
  <2>6. kernel' \subseteq managed'.added \cup abandoned' \cup (IF HasRoutes' THEN local' ELSE {})
    BY <1>d, <2>1, <2>2, <2>5 DEF HasRoutes
  <2>7. kernel' \cap Tun!Capture # {} => step' = "publish" BY <1>d, <2>3, <2>5
  <2>8. pinned' => abandoned' # {} \/ step' = "publish"
    BY <1>a, <1>b, <2>1, <2>5, <1>15 DEF RoutesOwned, HasRoutes, Tun!RoutesWindows
  <2> QED BY <1>b, <2>1, <2>2, <2>4, <2>6, <2>7, <2>8 DEF RoutesOwned, HasRoutes, Tun!Capturing
<1>16. CASE Tun!RoutesNone
  BY <1>16, <1>a, <1>b DEF Tun!RoutesNone, Tun!Continue, Tun!threadVars, Tun!slotVars,
     Tun!routeVars, Tun!flagVars, Tun!reportVars, RoutesOwned, HasRoutes, CallStands,
     Tun!Capturing, HasDevice, SlotType
<1>17. CASE Tun!Publish
  <2>1. /\ step = "publish" /\ step' = "idle" /\ devSlot' = used
        /\ UNCHANGED <<kernel, abandoned, pinned, os, want>>
    BY <1>17 DEF Tun!Publish, Tun!Return, Tun!routeVars
  <2>2. used # 0 BY <1>a, <2>1 DEF CallStands, HasDevice
  <2>3. CASE os = "linux"
    <3>1. managed' = [held |-> TRUE, added |-> local, active |-> TRUE]
      BY <1>17, <2>3 DEF Tun!Publish
    <3>2. kernel \subseteq abandoned \cup local
      BY <1>a, <1>b, <2>1 DEF RoutesOwned, HasRoutes, CallStands
    <3> QED BY <2>1, <2>2, <3>1, <3>2 DEF RoutesOwned, HasRoutes
  <2>4. CASE os # "linux"
    <3>1. managed' = managed /\ os = "mobile"
      BY <1>17, <2>4 DEF Tun!Publish, TunInv, TunType, CallType
    <3> QED BY <1>a, <1>b, <2>1, <2>2, <3>1 DEF RoutesOwned, HasRoutes, PlatformStands
  <2> QED BY <2>3, <2>4
<1>18. CASE Tun!PublishProcessor
  BY <1>18, <1>a, <1>b DEF Tun!PublishProcessor, Tun!Continue, Tun!threadVars, Tun!routeVars,
     Tun!flagVars, Tun!reportVars, RoutesOwned, HasRoutes, CallStands, Tun!Capturing, HasDevice
<1>19. CASE Tun!PublishRoutes
  BY <1>19, <1>a, <1>b DEF Tun!PublishRoutes, Tun!Continue, Tun!threadVars, Tun!routeVars,
     Tun!flagVars, Tun!reportVars, RoutesOwned, HasRoutes, CallStands, Tun!Capturing, HasDevice
<1>20. CASE Tun!PublishDevice
  BY <1>20, <1>a, <1>b DEF Tun!PublishDevice, Tun!Return, Tun!threadVars, Tun!routeVars,
     RoutesOwned, HasRoutes, CallStands, Tun!Capturing, HasDevice
<1>21. CASE Tun!SetVpnFd
  BY <1>21, <1>a, <1>b DEF Tun!SetVpnFd, Tun!callVars, Tun!threadVars, Tun!slotVars,
     Tun!routeVars, Tun!reportVars, RoutesOwned, HasRoutes, CallStands, Tun!Capturing
<1>22. CASE Tun!LegacyStopProcessor
  BY <1>22, <1>a, <1>b DEF Tun!LegacyStopProcessor, Tun!callVars, Tun!threadVars, Tun!routeVars,
     Tun!flagVars, RoutesOwned, HasRoutes, CallStands, Tun!Capturing
<1>23. CASE Tun!LegacyStopRoutes
  BY <1>23, <1>a, <1>b, <1>c DEF Tun!LegacyStopRoutes, Tun!callVars, Tun!threadVars, RoutesOwned,
     HasRoutes, CallStands, Tun!Capturing
<1>24. CASE Tun!LegacyStopDevice
  BY <1>24, <1>a, <1>b, <1>d DEF Tun!LegacyStopDevice, Tun!callVars, Tun!threadVars, RoutesOwned,
     HasRoutes, CallStands, Tun!Capturing
<1>25. ASSUME NEW g \in Tun!Gens, Tun!ReaderEnds(g) PROVE RoutesOwned'
  BY <1>25, <1>a, <1>b DEF Tun!ReaderEnds, Tun!threadFrame, Tun!callVars, Tun!slotVars,
     Tun!routeVars, Tun!flagVars, Tun!reportVars, RoutesOwned, HasRoutes, CallStands, Tun!Capturing
<1>26. ASSUME NEW g \in Tun!Gens, Tun!WriterEnds(g) PROVE RoutesOwned'
  BY <1>26, <1>a, <1>b DEF Tun!WriterEnds, Tun!threadFrame, Tun!callVars, Tun!slotVars,
     Tun!routeVars, Tun!flagVars, Tun!reportVars, RoutesOwned, HasRoutes, CallStands, Tun!Capturing
<1>27. ASSUME NEW g \in Tun!Gens, Tun!LoopEnds(g) PROVE RoutesOwned'
  BY <1>27, <1>a, <1>b DEF Tun!LoopEnds, Tun!threadFrame, Tun!callVars, Tun!slotVars,
     Tun!routeVars, Tun!flagVars, Tun!reportVars, RoutesOwned, HasRoutes, CallStands, Tun!Capturing
<1>28. ASSUME NEW g \in Tun!Gens, Tun!ReaderFails(g) PROVE RoutesOwned'
  BY <1>28, <1>a, <1>b DEF Tun!ReaderFails, Tun!threadFrame, Tun!callVars, Tun!slotVars,
     Tun!routeVars, Tun!flagVars, Tun!reportVars, RoutesOwned, HasRoutes, CallStands, Tun!Capturing
<1> QED
  BY <1>1, <1>2, <1>3, <1>4, <1>5, <1>6, <1>7, <1>8, <1>9, <1>10, <1>11, <1>12, <1>13, <1>14,
     <1>15, <1>16, <1>17, <1>18, <1>19, <1>20, <1>21, <1>22, <1>23,
     <1>24, <1>25, <1>26, <1>27, <1>28 DEF Tun!Next, Tun!Lifecycle, Tun!Threads

LEMMA CallAloneOn ==
  ASSUME Tun!TunAssumption, TunInv, Tun!Next
  PROVE CallAlone'
<1>a. CallAlone /\ CallStands /\ DeviceType /\ RoutesOwned BY DEF TunInv, TunType
<1>b. used \in 0 .. MaxEnable /\ MaxEnable \in Nat
  BY DEF TunInv, TunType, CallType, Tun!TunAssumption
<1>c. HasDevice => used \in Tun!Gens BY <1>a, <1>b DEF CallStands, HasDevice, Tun!Gens
<1>d. \A s \in 0 .. MaxEnable :
        \A g \in Tun!Gens : Tun!StopProcessor(s)[g] = IF g = s THEN "stopped" ELSE processor[g]
  BY StopProcessorIs DEF TunInv
<1>1. ASSUME NEW m \in Modes, Tun!BeginEnable(m) PROVE CallAlone'
  BY <1>1, <1>a DEF Tun!BeginEnable, Tun!threadVars, Tun!slotVars, Tun!routeVars, Tun!flagVars,
     CallAlone, Tun!Capturing
<1>2. ASSUME NEW m \in Modes, Tun!SetWindowsProxyMode(m) PROVE CallAlone'
  BY <1>2, <1>a DEF Tun!SetWindowsProxyMode, Tun!callVars, Tun!threadVars, CallAlone, Tun!Capturing
<1>3. CASE Tun!BeginDisable
  BY <1>3, <1>a DEF Tun!BeginDisable, Tun!threadVars, Tun!slotVars, Tun!routeVars, Tun!flagVars,
     CallAlone, Tun!Capturing
<1>4. CASE Tun!CleanLinux
  BY <1>4, <1>a DEF Tun!CleanLinux, Tun!Return, Tun!Continue, Tun!threadVars, Tun!reportVars,
     CallAlone, Tun!Capturing
<1>5. CASE Tun!CleanWindows
  BY <1>5, <1>a DEF Tun!CleanWindows, Tun!Return, Tun!Continue, Tun!threadVars, Tun!reportVars,
     CallAlone, Tun!Capturing
<1>6. CASE Tun!CleanMobile
  BY <1>6, <1>a DEF Tun!CleanMobile, Tun!Return, Tun!Continue, Tun!threadVars, Tun!routeVars,
     Tun!reportVars, CallAlone, Tun!Capturing
<1>7. CASE Tun!StopMobile
  BY <1>7, <1>a DEF Tun!StopMobile, Tun!Return, Tun!threadVars, Tun!routeVars, CallAlone,
     Tun!Capturing
<1>8. CASE Tun!CheckFails
  BY <1>8, <1>a DEF Tun!CheckFails, Tun!Return, Tun!threadVars, Tun!slotVars, Tun!routeVars,
     CallAlone, Tun!Capturing
<1>9. CASE Tun!CheckPasses
  BY <1>9, <1>a DEF Tun!CheckPasses, Tun!Continue, Tun!threadVars, Tun!slotVars, Tun!routeVars,
     Tun!reportVars, CallAlone, Tun!Capturing
<1>10. CASE Tun!DeviceStarts
  BY <1>10, <1>a DEF Tun!DeviceStarts, Tun!slotVars, Tun!routeVars, Tun!flagVars, Tun!reportVars,
     CallAlone, Tun!Capturing
<1>11. CASE Tun!DeviceFails
  BY <1>11, <1>a DEF Tun!DeviceFails, Tun!slotVars, Tun!routeVars, CallAlone, Tun!Capturing
<1>12. CASE Tun!LoopSpawns
  BY <1>12, <1>a, <1>b, <1>c DEF Tun!LoopSpawns, Tun!Continue, Tun!slotVars, Tun!routeVars,
     Tun!flagVars, Tun!reportVars, CallAlone, Tun!Capturing, HasDevice, DeviceType
<1>13. CASE Tun!LoopSpawnFails
  BY <1>13, <1>a, <1>b, <1>c DEF Tun!LoopSpawnFails, Tun!Return, Tun!Continue, Tun!threadVars,
     Tun!slotVars, Tun!routeVars, Tun!flagVars, Tun!reportVars, CallAlone, Tun!Capturing,
     HasDevice, DeviceType
<1>14. CASE Tun!RoutesLinux
  BY <1>14, <1>a DEF Tun!RoutesLinux, Tun!Return, Tun!threadVars, Tun!slotVars, Tun!flagVars,
     Tun!reportVars, CallAlone, Tun!Capturing, Tun!Complete, CallStands
<1>15. CASE Tun!RoutesWindows
  BY <1>15, <1>a DEF Tun!RoutesWindows, Tun!Return, Tun!threadVars, Tun!slotVars, Tun!reportVars,
     CallAlone, Tun!Capturing, Tun!Complete, CallStands
<1>16. CASE Tun!RoutesNone
  BY <1>16, <1>a DEF Tun!RoutesNone, Tun!Continue, Tun!threadVars, Tun!slotVars, Tun!routeVars,
     Tun!flagVars, Tun!reportVars, CallAlone, Tun!Capturing, Tun!Complete, CallStands
<1>17. CASE Tun!Publish
  BY <1>17, <1>a DEF Tun!Publish, Tun!Return, Tun!threadVars, Tun!routeVars, CallAlone,
     Tun!Capturing, CallStands, RoutesOwned
<1>18. CASE Tun!PublishProcessor
  BY <1>18, <1>a DEF Tun!PublishProcessor, Tun!Continue, Tun!threadVars, Tun!routeVars,
     Tun!flagVars, Tun!reportVars, CallAlone, Tun!Capturing, CallStands, RoutesOwned
<1>19. CASE Tun!PublishRoutes
  BY <1>19, <1>a DEF Tun!PublishRoutes, Tun!Continue, Tun!threadVars, Tun!routeVars, Tun!flagVars,
     Tun!reportVars, CallAlone, Tun!Capturing, CallStands, RoutesOwned
<1>20. CASE Tun!PublishDevice
  BY <1>20, <1>a DEF Tun!PublishDevice, Tun!Return, Tun!threadVars, Tun!routeVars, CallAlone,
     Tun!Capturing, CallStands, RoutesOwned
<1>21. CASE Tun!SetVpnFd
  BY <1>21, <1>a DEF Tun!SetVpnFd, Tun!callVars, Tun!threadVars, Tun!slotVars, Tun!routeVars,
     Tun!reportVars, CallAlone, Tun!Capturing
<1>22. CASE Tun!LegacyStopProcessor
  BY <1>22, <1>a DEF Tun!LegacyStopProcessor, Tun!callVars, Tun!threadVars, Tun!routeVars,
     Tun!flagVars, CallAlone, Tun!Capturing
<1>23. CASE Tun!LegacyStopRoutes
  BY <1>23, <1>a DEF Tun!LegacyStopRoutes, Tun!callVars, Tun!threadVars, CallAlone, Tun!Capturing
<1>24. CASE Tun!LegacyStopDevice
  BY <1>24, <1>a DEF Tun!LegacyStopDevice, Tun!callVars, Tun!threadVars, CallAlone, Tun!Capturing
<1>25. ASSUME NEW g \in Tun!Gens, Tun!ReaderEnds(g) PROVE CallAlone'
  BY <1>25, <1>a DEF Tun!ReaderEnds, Tun!threadFrame, Tun!callVars, Tun!slotVars, Tun!routeVars,
     Tun!flagVars, Tun!reportVars, CallAlone, Tun!Capturing
<1>26. ASSUME NEW g \in Tun!Gens, Tun!WriterEnds(g) PROVE CallAlone'
  BY <1>26, <1>a DEF Tun!WriterEnds, Tun!threadFrame, Tun!callVars, Tun!slotVars, Tun!routeVars,
     Tun!flagVars, Tun!reportVars, CallAlone, Tun!Capturing
<1>27. ASSUME NEW g \in Tun!Gens, Tun!LoopEnds(g) PROVE CallAlone'
  BY <1>27, <1>a, <1>b, <1>c, <1>d DEF Tun!LoopEnds, Tun!threadFrame, Tun!callVars, Tun!slotVars,
     Tun!routeVars, Tun!flagVars, Tun!reportVars, CallAlone, Tun!Capturing, HasDevice, DeviceType,
     Tun!Gens
<1>28. ASSUME NEW g \in Tun!Gens, Tun!ReaderFails(g) PROVE CallAlone'
  BY <1>28, <1>a DEF Tun!ReaderFails, Tun!threadFrame, Tun!callVars, Tun!slotVars, Tun!routeVars,
     Tun!flagVars, Tun!reportVars, CallAlone, Tun!Capturing
<1> QED
  BY <1>1, <1>2, <1>3, <1>4, <1>5, <1>6, <1>7, <1>8, <1>9, <1>10, <1>11, <1>12, <1>13, <1>14,
     <1>15, <1>16, <1>17, <1>18, <1>19, <1>20, <1>21, <1>22, <1>23,
     <1>24, <1>25, <1>26, <1>27, <1>28 DEF Tun!Next, Tun!Lifecycle, Tun!Threads

LEMMA DownStaysTrue ==
  ASSUME Tun!TunAssumption, TunInv, Tun!Next
  PROVE Tun!ReportedDownIsDown'
<1>a. TunType /\ Tun!ReportedDownIsDown /\ DevicesOwned /\ CallStands /\ RoutesOwned /\ PlatformStands
  BY DEF TunInv
<1>b. Tun!NoManager.added = {} /\ ~Tun!NoManager.active /\ ~Tun!NoManager.held BY DEF Tun!NoManager
<1>c. RoutesOwned' /\ DevicesOwned' /\ PlatformStands' /\ CallStands'
  BY RoutesOwnedOn, DevicesOwnedOn, PlatformStandsOn, CallStandsOn
<1>d. DeviceType BY <1>a DEF TunType
<1>e. ASSUME step' # "idle" \/ report'.enabled \/ last' \notin {"enable", "disable"} \/ legacy' # "idle"
      PROVE Tun!ReportedDownIsDown'
  BY <1>e DEF Tun!ReportedDownIsDown, Tun!Quiet
<1>f. ASSUME devSlot' = 0, procSlot' = 0, managed' = Tun!NoManager, step' = "idle", ~trusted', last' = "disable" => mode' = Tun!Off
      PROVE Tun!ReportedDownIsDown'
  <2>1. \A g \in Tun!Gens : g # 0 BY DEF Tun!Gens, Tun!TunAssumption
  <2>2. \A g \in Tun!Gens : ~dev'[g].open /\ processor'[g] # "run"
    BY <1>c, <1>f, <2>1 DEF DevicesOwned, HasDevice, HasProcessor
  <2>3. kernel' \cap Tun!Capture = {} /\ kernel' \subseteq abandoned' /\ (pinned' => abandoned' # {})
    BY <1>b, <1>c, <1>f DEF RoutesOwned, HasRoutes
  <2> QED BY <1>b, <1>f, <2>2, <2>3 DEF Tun!ReportedDownIsDown, Tun!Quiet
<1>1. ASSUME NEW m \in Modes, Tun!BeginEnable(m) PROVE Tun!ReportedDownIsDown'
  BY <1>e, <1>1 DEF Tun!BeginEnable
<1>2. ASSUME NEW m \in Modes, Tun!SetWindowsProxyMode(m) PROVE Tun!ReportedDownIsDown'
  BY <1>e, <1>2 DEF Tun!SetWindowsProxyMode
<1>3. CASE Tun!BeginDisable
  BY <1>e, <1>3 DEF Tun!BeginDisable
<1>4. CASE Tun!CleanLinux
  <2>1. CASE step' = "idle"
    BY <1>a, <1>f, <1>4, <2>1 DEF Tun!CleanLinux, PlatformStands
  <2> QED BY <1>e, <2>1
<1>5. CASE Tun!CleanWindows
  <2>1. CASE step' = "idle" /\ ~report'.enabled
    BY <1>f, <1>5, <2>1 DEF Tun!CleanWindows, Tun!Return, Tun!Report
  <2> QED BY <1>e, <2>1
<1>6. CASE Tun!CleanMobile
  <2>1. CASE step' = "idle"
    <3>1. UNCHANGED <<devSlot, procSlot, managed, trusted>> /\ mode' = Tun!Off /\ os = "mobile" /\ ~vpnFd
      BY <1>6, <2>1 DEF Tun!CleanMobile, Tun!Continue
    <3> QED BY <1>a, <1>f, <2>1, <3>1 DEF PlatformStands
  <2> QED BY <1>e, <2>1
<1>7. CASE Tun!StopMobile
  BY <1>a, <1>f, <1>7 DEF Tun!StopMobile, Tun!Return, PlatformStands
<1>8. CASE Tun!CheckFails
  BY <1>a, <1>f, <1>8 DEF Tun!CheckFails, Tun!Return, PlatformStands, CallStands, Tun!slotVars
<1>9. CASE Tun!CheckPasses
  BY <1>e, <1>9 DEF Tun!CheckPasses, Tun!Continue
<1>10. CASE Tun!DeviceStarts
  BY <1>e, <1>10 DEF Tun!DeviceStarts
<1>11. CASE Tun!DeviceFails
  BY <1>a, <1>f, <1>11 DEF Tun!DeviceFails, CallStands, Tun!slotVars
<1>12. CASE Tun!LoopSpawns
  BY <1>e, <1>12 DEF Tun!LoopSpawns, Tun!Continue
<1>13. CASE Tun!LoopSpawnFails
  <2>1. CASE os = "windows" BY <1>e, <1>13, <2>1 DEF Tun!LoopSpawnFails, Tun!Continue
  <2>2. CASE os # "windows"
    BY <1>a, <1>f, <1>13, <2>2 DEF Tun!LoopSpawnFails, Tun!Return, CallStands, PlatformStands,
       Tun!slotVars, Tun!flagVars
  <2> QED BY <2>1, <2>2
<1>14. CASE Tun!RoutesLinux
  <2>1. CASE step' = "idle"
    <3>1. UNCHANGED <<devSlot, procSlot, managed>> /\ ~trusted' /\ last' = "enable"
      BY <1>a, <1>14, <2>1 DEF Tun!RoutesLinux, Tun!Return, PlatformStands, CallStands,
         Tun!slotVars, Tun!flagVars
    <3> QED BY <1>a, <1>f, <2>1, <3>1, <1>14 DEF CallStands, Tun!RoutesLinux
  <2> QED BY <1>e, <2>1
<1>15. CASE Tun!RoutesWindows
  <2>1. CASE step' = "idle"
    <3>1. UNCHANGED <<devSlot, procSlot, managed>> /\ ~trusted' /\ last' = "enable"
      BY <1>a, <1>15, <2>1 DEF Tun!RoutesWindows, Tun!Return, PlatformStands, CallStands,
         Tun!slotVars, Tun!flagVars
    <3> QED BY <1>a, <1>f, <2>1, <3>1, <1>15 DEF CallStands, Tun!RoutesWindows
  <2> QED BY <1>e, <2>1
<1>16. CASE Tun!RoutesNone
  BY <1>e, <1>16 DEF Tun!RoutesNone, Tun!Continue
<1>17. CASE Tun!Publish
  BY <1>e, <1>17 DEF Tun!Publish, Tun!Return, Tun!Report
<1>18. CASE Tun!PublishProcessor
  BY <1>e, <1>18 DEF Tun!PublishProcessor, Tun!Continue
<1>19. CASE Tun!PublishRoutes
  BY <1>e, <1>19 DEF Tun!PublishRoutes, Tun!Continue
<1>20. CASE Tun!PublishDevice
  BY <1>e, <1>20 DEF Tun!PublishDevice, Tun!Return, Tun!Report
<1>21. CASE Tun!SetVpnFd
  BY <1>a, <1>21 DEF Tun!SetVpnFd, Tun!callVars, Tun!threadVars, Tun!slotVars, Tun!routeVars,
     Tun!reportVars, Tun!ReportedDownIsDown, Tun!Quiet
<1>22. CASE Tun!LegacyStopProcessor
  BY <1>e, <1>22 DEF Tun!LegacyStopProcessor
<1>23. CASE Tun!LegacyStopRoutes
  BY <1>e, <1>23 DEF Tun!LegacyStopRoutes
<1>24. CASE Tun!LegacyStopDevice
  BY <1>e, <1>24 DEF Tun!LegacyStopDevice
<1>25. ASSUME NEW g \in Tun!Gens, Tun!ReaderEnds(g) PROVE Tun!ReportedDownIsDown'
  <2>1. \A h \in Tun!Gens : dev'[h].open = dev[h].open /\ (processor'[h] = "run" => processor[h] = "run")
    BY <1>d, <1>25 DEF Tun!ReaderEnds, DeviceType
  <2>2. UNCHANGED Tun!threadFrame BY <1>25 DEF Tun!ReaderEnds
  <2> QED
    BY <1>a, <2>1, <2>2 DEF Tun!threadFrame, Tun!callVars, Tun!slotVars, Tun!routeVars,
       Tun!flagVars, Tun!reportVars, Tun!ReportedDownIsDown, Tun!Quiet
<1>26. ASSUME NEW g \in Tun!Gens, Tun!WriterEnds(g) PROVE Tun!ReportedDownIsDown'
  <2>1. \A h \in Tun!Gens : dev'[h].open = dev[h].open /\ (processor'[h] = "run" => processor[h] = "run")
    BY <1>d, <1>26 DEF Tun!WriterEnds, DeviceType
  <2>2. UNCHANGED Tun!threadFrame BY <1>26 DEF Tun!WriterEnds
  <2> QED
    BY <1>a, <2>1, <2>2 DEF Tun!threadFrame, Tun!callVars, Tun!slotVars, Tun!routeVars,
       Tun!flagVars, Tun!reportVars, Tun!ReportedDownIsDown, Tun!Quiet
<1>27. ASSUME NEW g \in Tun!Gens, Tun!LoopEnds(g) PROVE Tun!ReportedDownIsDown'
  <2>1. \A h \in Tun!Gens : dev'[h].open = dev[h].open /\ (processor'[h] = "run" => processor[h] = "run")
    BY <1>d, <1>27 DEF Tun!LoopEnds, DeviceType, Tun!StopProcessor
  <2>2. UNCHANGED Tun!threadFrame BY <1>27 DEF Tun!LoopEnds
  <2> QED
    BY <1>a, <2>1, <2>2 DEF Tun!threadFrame, Tun!callVars, Tun!slotVars, Tun!routeVars,
       Tun!flagVars, Tun!reportVars, Tun!ReportedDownIsDown, Tun!Quiet
<1>28. ASSUME NEW g \in Tun!Gens, Tun!ReaderFails(g) PROVE Tun!ReportedDownIsDown'
  <2>1. \A h \in Tun!Gens : dev'[h].open = dev[h].open /\ (processor'[h] = "run" => processor[h] = "run")
    BY <1>d, <1>28 DEF Tun!ReaderFails, DeviceType
  <2>2. UNCHANGED Tun!threadFrame BY <1>28 DEF Tun!ReaderFails
  <2> QED
    BY <1>a, <2>1, <2>2 DEF Tun!threadFrame, Tun!callVars, Tun!slotVars, Tun!routeVars,
       Tun!flagVars, Tun!reportVars, Tun!ReportedDownIsDown, Tun!Quiet
<1> QED
  BY <1>1, <1>2, <1>3, <1>4, <1>5, <1>6, <1>7, <1>8, <1>9, <1>10, <1>11, <1>12, <1>13, <1>14,
     <1>15, <1>16, <1>17, <1>18, <1>19, <1>20, <1>21, <1>22, <1>23,
     <1>24, <1>25, <1>26, <1>27, <1>28 DEF Tun!Next, Tun!Lifecycle, Tun!Threads

LEMMA UpStaysTrue ==
  ASSUME Tun!TunAssumption, TunInv, Tun!Next
  PROVE Tun!ReportedUpIsUp'
<1>a. TunType /\ Tun!ReportedUpIsUp /\ DevicesOwned /\ CallStands /\ RoutesOwned /\ PlatformStands /\ CallAlone
  BY DEF TunInv
<1>b. RoutesOwned' /\ DevicesOwned' /\ PlatformStands' /\ SlotType' /\ CallType'
  BY RoutesOwnedOn, DevicesOwnedOn, PlatformStandsOn, SlotTyped, CallTyped
<1>c. DeviceType BY <1>a DEF TunType
<1>e. ASSUME \/ step' # "idle" \/ ~report'.enabled \/ report'.error
             \/ last' # "enable" \/ legacy' # "idle" \/ overlapped'
      PROVE Tun!ReportedUpIsUp'
  BY <1>e DEF Tun!ReportedUpIsUp, Tun!Quiet
<1>f. \A g \in Tun!Gens : g # 0 /\ (devSlot' \in 0 .. MaxEnable => (devSlot' # 0 => devSlot' \in Tun!Gens))
  BY DEF Tun!Gens, Tun!TunAssumption
<1>1. ASSUME NEW m \in Modes, Tun!BeginEnable(m) PROVE Tun!ReportedUpIsUp'
  BY <1>e, <1>1 DEF Tun!BeginEnable
<1>2. ASSUME NEW m \in Modes, Tun!SetWindowsProxyMode(m) PROVE Tun!ReportedUpIsUp'
  BY <1>e, <1>2 DEF Tun!SetWindowsProxyMode
<1>3. CASE Tun!BeginDisable
  BY <1>e, <1>3 DEF Tun!BeginDisable
<1>4. CASE Tun!CleanLinux
  BY <1>e, <1>4 DEF Tun!CleanLinux, Tun!Return, Tun!Continue, Tun!Report
<1>5. CASE Tun!CleanWindows
  BY <1>e, <1>5 DEF Tun!CleanWindows, Tun!Return, Tun!Continue, Tun!Report
<1>6. CASE Tun!CleanMobile
  BY <1>e, <1>6 DEF Tun!CleanMobile, Tun!Return, Tun!Continue, Tun!Report
<1>7. CASE Tun!StopMobile
  BY <1>e, <1>7 DEF Tun!StopMobile, Tun!Return, Tun!Continue, Tun!Report
<1>8. CASE Tun!CheckFails
  BY <1>e, <1>8 DEF Tun!CheckFails, Tun!Return, Tun!Continue, Tun!Report
<1>9. CASE Tun!CheckPasses
  BY <1>e, <1>9 DEF Tun!CheckPasses, Tun!Continue
<1>10. CASE Tun!DeviceStarts
  BY <1>e, <1>10 DEF Tun!DeviceStarts
<1>11. CASE Tun!DeviceFails
  BY <1>e, <1>11 DEF Tun!DeviceFails, Tun!Report
<1>12. CASE Tun!LoopSpawns
  BY <1>e, <1>12 DEF Tun!LoopSpawns, Tun!Continue
<1>13. CASE Tun!LoopSpawnFails
  BY <1>e, <1>13 DEF Tun!LoopSpawnFails, Tun!Return, Tun!Continue, Tun!Report
<1>14. CASE Tun!RoutesLinux
  <2>1. step' = "publish" \/ report' = Tun!Report(FALSE, TRUE)
    BY <1>14 DEF Tun!RoutesLinux, Tun!Return
  <2> QED BY <1>e, <2>1 DEF Tun!Report
<1>15. CASE Tun!RoutesWindows
  <2>1. step' = "publish" \/ report' = Tun!Report(FALSE, TRUE)
    BY <1>15 DEF Tun!RoutesWindows, Tun!Return
  <2> QED BY <1>e, <2>1 DEF Tun!Report
<1>16. CASE Tun!RoutesNone
  BY <1>e, <1>16 DEF Tun!RoutesNone, Tun!Continue
<1>17. CASE Tun!Publish
  <2>1. SUFFICES ASSUME ~overlapped PROVE Tun!ReportedUpIsUp'
    BY <1>e, <1>17 DEF Tun!Publish, Tun!Return
  <2>2. /\ step = "publish" /\ devSlot' = used /\ mode' = want.mode
        /\ UNCHANGED <<os, want, used, kernel, abandoned, dev, loop, reader, processor, vpnFd, overlapped>>
        /\ step' = "idle"
    BY <1>17 DEF Tun!Publish, Tun!Return, Tun!threadVars, Tun!routeVars
  <2>3. procSlot' = used BY <1>a, <2>1, <2>2, <1>17 DEF Tun!Publish, CallAlone
  <2>4. used # 0 /\ dev[used].open /\ used \in Tun!Gens
    BY <1>a, <2>2 DEF CallStands, HasDevice, DevicesOwned, TunType, CallType, Tun!Gens
  <2>5. Tun!Capturing => Tun!Capture \subseteq kernel /\ managed'.active
    BY <1>a, <2>1, <2>2, <1>17 DEF Tun!Publish, CallAlone, TunType, CallType, Tun!Capturing
  <2>6. kernel' \subseteq managed'.added \cup abandoned' BY <1>b, <2>2 DEF RoutesOwned, HasRoutes
  <2>7. loop[used] = "run" => processor[used] = "run" BY <1>a, <2>1, <2>2 DEF CallAlone
  <2>8. reader[used] = "run" => dev[used].running BY <1>a, <2>4 DEF DevicesOwned
  <2> QED
    BY <2>2, <2>3, <2>4, <2>5, <2>6, <2>7, <2>8 DEF Tun!ReportedUpIsUp, Tun!Quiet, Tun!Capturing,
       Tun!GetTunStatus
<1>18. CASE Tun!PublishProcessor
  BY <1>e, <1>18 DEF Tun!PublishProcessor, Tun!Continue
<1>19. CASE Tun!PublishRoutes
  BY <1>e, <1>19 DEF Tun!PublishRoutes, Tun!Continue
<1>20. CASE Tun!PublishDevice
  <2>1. SUFFICES ASSUME ~overlapped PROVE Tun!ReportedUpIsUp'
    BY <1>e, <1>20 DEF Tun!PublishDevice, Tun!Return
  <2>2. /\ step = "publishDevice" /\ devSlot' = used /\ mode' = want.mode
        /\ UNCHANGED <<os, want, used, kernel, abandoned, dev, loop, reader, processor, vpnFd, overlapped>>
        /\ step' = "idle"
    BY <1>20 DEF Tun!PublishDevice, Tun!Return, Tun!threadVars, Tun!routeVars
  <2>3. procSlot' = used BY <1>a, <2>1, <2>2, <1>20 DEF Tun!PublishDevice, CallAlone
  <2>4. used # 0 /\ dev[used].open /\ used \in Tun!Gens
    BY <1>a, <2>2 DEF CallStands, HasDevice, DevicesOwned, TunType, CallType, Tun!Gens
  <2>5. Tun!Capturing => Tun!Capture \subseteq kernel /\ managed'.active
    <3>1. managed' = [held |-> TRUE, added |-> local, active |-> Tun!Capturing]
      BY <1>a, <2>1, <2>2, <1>20 DEF Tun!PublishDevice, CallAlone
    <3>2. managed'.active = Tun!Capturing BY <3>1
    <3> QED BY <1>a, <2>1, <2>2, <3>2 DEF CallAlone
  <2>6. kernel' \subseteq managed'.added \cup abandoned' BY <1>b, <2>2 DEF RoutesOwned, HasRoutes
  <2>7. loop[used] = "run" => processor[used] = "run" BY <1>a, <2>1, <2>2 DEF CallAlone
  <2>8. reader[used] = "run" => dev[used].running BY <1>a, <2>4 DEF DevicesOwned
  <2> QED
    BY <2>2, <2>3, <2>4, <2>5, <2>6, <2>7, <2>8 DEF Tun!ReportedUpIsUp, Tun!Quiet, Tun!Capturing,
       Tun!GetTunStatus
<1>21. CASE Tun!SetVpnFd
  <2>1. SUFFICES ASSUME Tun!Quiet({"enable"})', report'.enabled, ~report'.error PROVE Tun!ReportedUpIsUp'
    BY DEF Tun!ReportedUpIsUp
  <2>2. Tun!Quiet({"enable"}) /\ report.enabled /\ ~report.error
    BY <1>21, <2>1 DEF Tun!SetVpnFd, Tun!callVars, Tun!reportVars, Tun!Quiet
  <2>3. FALSE BY <1>a, <1>21, <2>2 DEF Tun!SetVpnFd, Tun!ReportedUpIsUp, PlatformStands
  <2> QED BY <2>3
<1>22. CASE Tun!LegacyStopProcessor
  BY <1>e, <1>22 DEF Tun!LegacyStopProcessor
<1>23. CASE Tun!LegacyStopRoutes
  BY <1>e, <1>23 DEF Tun!LegacyStopRoutes
<1>24. CASE Tun!LegacyStopDevice
  BY <1>e, <1>24 DEF Tun!LegacyStopDevice
<1>25. ASSUME NEW g \in Tun!Gens, Tun!ReaderEnds(g) PROVE Tun!ReportedUpIsUp'
  <2>1. /\ \A h \in Tun!Gens : dev'[h].open = dev[h].open
        /\ \A h \in Tun!Gens : reader'[h] = "run" => reader[h] = "run"
        /\ \A h \in Tun!Gens : loop'[h] = "run" => loop[h] = "run" /\ processor'[h] = processor[h]
    BY <1>c, <1>25 DEF Tun!ReaderEnds, DeviceType
  <2>2. UNCHANGED Tun!threadFrame BY <1>25 DEF Tun!ReaderEnds
  <2>3. SUFFICES ASSUME Tun!Quiet({"enable"})', report'.enabled, ~report'.error PROVE Tun!ReportedUpIsUp'
    BY DEF Tun!ReportedUpIsUp
  <2>4. Tun!Quiet({"enable"}) /\ report.enabled /\ ~report.error
    BY <2>2, <2>3 DEF Tun!threadFrame, Tun!callVars, Tun!reportVars, Tun!Quiet
  <2>5. UNCHANGED <<os, want, devSlot, procSlot, mode, kernel, managed, abandoned, vpnFd>>
    BY <2>2 DEF Tun!threadFrame, Tun!callVars, Tun!slotVars, Tun!routeVars, Tun!flagVars
  <2>6. devSlot \in Tun!Gens /\ devSlot # 0 /\ devSlot = procSlot
    BY <1>a, <2>4 DEF Tun!ReportedUpIsUp, TunType, SlotType, Tun!Gens
  <2>7. reader'[devSlot] = "run" => dev'[devSlot].running
    BY <1>a, <1>b, <2>1, <2>4, <2>6 DEF Tun!ReportedUpIsUp, DevicesOwned
  <2>8. /\ dev[devSlot].open /\ mode = want.mode
        /\ Tun!Capturing => /\ Tun!Capture \subseteq kernel /\ managed.active
                            /\ kernel \subseteq managed.added \cup abandoned
        /\ loop[devSlot] = "run" /\ reader[devSlot] = "run" /\ (os = "mobile" => vpnFd) => Tun!GetTunStatus
    BY <1>a, <2>4 DEF Tun!ReportedUpIsUp
  <2>9. loop'[devSlot] = "run" /\ reader'[devSlot] = "run" /\ (os = "mobile" => vpnFd) => Tun!GetTunStatus'
    BY <2>1, <2>5, <2>6, <2>7, <2>8 DEF Tun!GetTunStatus
  <2> QED BY <2>1, <2>5, <2>6, <2>8, <2>9 DEF Tun!ReportedUpIsUp, Tun!Capturing
<1>26. ASSUME NEW g \in Tun!Gens, Tun!WriterEnds(g) PROVE Tun!ReportedUpIsUp'
  <2>1. /\ \A h \in Tun!Gens : dev'[h].open = dev[h].open
        /\ \A h \in Tun!Gens : reader'[h] = "run" => reader[h] = "run"
        /\ \A h \in Tun!Gens : loop'[h] = "run" => loop[h] = "run" /\ processor'[h] = processor[h]
    BY <1>c, <1>26 DEF Tun!WriterEnds, DeviceType
  <2>2. UNCHANGED Tun!threadFrame BY <1>26 DEF Tun!WriterEnds
  <2>3. SUFFICES ASSUME Tun!Quiet({"enable"})', report'.enabled, ~report'.error PROVE Tun!ReportedUpIsUp'
    BY DEF Tun!ReportedUpIsUp
  <2>4. Tun!Quiet({"enable"}) /\ report.enabled /\ ~report.error
    BY <2>2, <2>3 DEF Tun!threadFrame, Tun!callVars, Tun!reportVars, Tun!Quiet
  <2>5. UNCHANGED <<os, want, devSlot, procSlot, mode, kernel, managed, abandoned, vpnFd>>
    BY <2>2 DEF Tun!threadFrame, Tun!callVars, Tun!slotVars, Tun!routeVars, Tun!flagVars
  <2>6. devSlot \in Tun!Gens /\ devSlot # 0 /\ devSlot = procSlot
    BY <1>a, <2>4 DEF Tun!ReportedUpIsUp, TunType, SlotType, Tun!Gens
  <2>7. reader'[devSlot] = "run" => dev'[devSlot].running
    BY <1>a, <1>b, <2>1, <2>4, <2>6 DEF Tun!ReportedUpIsUp, DevicesOwned
  <2>8. /\ dev[devSlot].open /\ mode = want.mode
        /\ Tun!Capturing => /\ Tun!Capture \subseteq kernel /\ managed.active
                            /\ kernel \subseteq managed.added \cup abandoned
        /\ loop[devSlot] = "run" /\ reader[devSlot] = "run" /\ (os = "mobile" => vpnFd) => Tun!GetTunStatus
    BY <1>a, <2>4 DEF Tun!ReportedUpIsUp
  <2>9. loop'[devSlot] = "run" /\ reader'[devSlot] = "run" /\ (os = "mobile" => vpnFd) => Tun!GetTunStatus'
    BY <2>1, <2>5, <2>6, <2>7, <2>8 DEF Tun!GetTunStatus
  <2> QED BY <2>1, <2>5, <2>6, <2>8, <2>9 DEF Tun!ReportedUpIsUp, Tun!Capturing
<1>27. ASSUME NEW g \in Tun!Gens, Tun!LoopEnds(g) PROVE Tun!ReportedUpIsUp'
  <2>1. /\ \A h \in Tun!Gens : dev'[h].open = dev[h].open
        /\ \A h \in Tun!Gens : reader'[h] = "run" => reader[h] = "run"
        /\ \A h \in Tun!Gens : loop'[h] = "run" => loop[h] = "run" /\ processor'[h] = processor[h]
    BY <1>c, <1>27 DEF Tun!LoopEnds, DeviceType, Tun!StopProcessor
  <2>2. UNCHANGED Tun!threadFrame BY <1>27 DEF Tun!LoopEnds
  <2>3. SUFFICES ASSUME Tun!Quiet({"enable"})', report'.enabled, ~report'.error PROVE Tun!ReportedUpIsUp'
    BY DEF Tun!ReportedUpIsUp
  <2>4. Tun!Quiet({"enable"}) /\ report.enabled /\ ~report.error
    BY <2>2, <2>3 DEF Tun!threadFrame, Tun!callVars, Tun!reportVars, Tun!Quiet
  <2>5. UNCHANGED <<os, want, devSlot, procSlot, mode, kernel, managed, abandoned, vpnFd>>
    BY <2>2 DEF Tun!threadFrame, Tun!callVars, Tun!slotVars, Tun!routeVars, Tun!flagVars
  <2>6. devSlot \in Tun!Gens /\ devSlot # 0 /\ devSlot = procSlot
    BY <1>a, <2>4 DEF Tun!ReportedUpIsUp, TunType, SlotType, Tun!Gens
  <2>7. reader'[devSlot] = "run" => dev'[devSlot].running
    BY <1>a, <1>b, <2>1, <2>4, <2>6 DEF Tun!ReportedUpIsUp, DevicesOwned
  <2>8. /\ dev[devSlot].open /\ mode = want.mode
        /\ Tun!Capturing => /\ Tun!Capture \subseteq kernel /\ managed.active
                            /\ kernel \subseteq managed.added \cup abandoned
        /\ loop[devSlot] = "run" /\ reader[devSlot] = "run" /\ (os = "mobile" => vpnFd) => Tun!GetTunStatus
    BY <1>a, <2>4 DEF Tun!ReportedUpIsUp
  <2>9. loop'[devSlot] = "run" /\ reader'[devSlot] = "run" /\ (os = "mobile" => vpnFd) => Tun!GetTunStatus'
    BY <2>1, <2>5, <2>6, <2>7, <2>8 DEF Tun!GetTunStatus
  <2> QED BY <2>1, <2>5, <2>6, <2>8, <2>9 DEF Tun!ReportedUpIsUp, Tun!Capturing
<1>28. ASSUME NEW g \in Tun!Gens, Tun!ReaderFails(g) PROVE Tun!ReportedUpIsUp'
  <2>1. /\ \A h \in Tun!Gens : dev'[h].open = dev[h].open
        /\ \A h \in Tun!Gens : reader'[h] = "run" => reader[h] = "run"
        /\ \A h \in Tun!Gens : loop'[h] = "run" => loop[h] = "run" /\ processor'[h] = processor[h]
    BY <1>c, <1>28 DEF Tun!ReaderFails, DeviceType
  <2>2. UNCHANGED Tun!threadFrame BY <1>28 DEF Tun!ReaderFails
  <2>3. SUFFICES ASSUME Tun!Quiet({"enable"})', report'.enabled, ~report'.error PROVE Tun!ReportedUpIsUp'
    BY DEF Tun!ReportedUpIsUp
  <2>4. Tun!Quiet({"enable"}) /\ report.enabled /\ ~report.error
    BY <2>2, <2>3 DEF Tun!threadFrame, Tun!callVars, Tun!reportVars, Tun!Quiet
  <2>5. UNCHANGED <<os, want, devSlot, procSlot, mode, kernel, managed, abandoned, vpnFd>>
    BY <2>2 DEF Tun!threadFrame, Tun!callVars, Tun!slotVars, Tun!routeVars, Tun!flagVars
  <2>6. devSlot \in Tun!Gens /\ devSlot # 0 /\ devSlot = procSlot
    BY <1>a, <2>4 DEF Tun!ReportedUpIsUp, TunType, SlotType, Tun!Gens
  <2>7. reader'[devSlot] = "run" => dev'[devSlot].running
    BY <1>a, <1>b, <2>1, <2>4, <2>6 DEF Tun!ReportedUpIsUp, DevicesOwned
  <2>8. /\ dev[devSlot].open /\ mode = want.mode
        /\ Tun!Capturing => /\ Tun!Capture \subseteq kernel /\ managed.active
                            /\ kernel \subseteq managed.added \cup abandoned
        /\ loop[devSlot] = "run" /\ reader[devSlot] = "run" /\ (os = "mobile" => vpnFd) => Tun!GetTunStatus
    BY <1>a, <2>4 DEF Tun!ReportedUpIsUp
  <2>9. loop'[devSlot] = "run" /\ reader'[devSlot] = "run" /\ (os = "mobile" => vpnFd) => Tun!GetTunStatus'
    BY <2>1, <2>5, <2>6, <2>7, <2>8 DEF Tun!GetTunStatus
  <2> QED BY <2>1, <2>5, <2>6, <2>8, <2>9 DEF Tun!ReportedUpIsUp, Tun!Capturing
<1> QED
  BY <1>1, <1>2, <1>3, <1>4, <1>5, <1>6, <1>7, <1>8, <1>9, <1>10, <1>11, <1>12, <1>13, <1>14,
     <1>15, <1>16, <1>17, <1>18, <1>19, <1>20, <1>21, <1>22, <1>23,
     <1>24, <1>25, <1>26, <1>27, <1>28 DEF Tun!Next, Tun!Lifecycle, Tun!Threads

LEMMA TunKept ==
  ASSUME Tun!TunAssumption, TunInv, Tun!Next
  PROVE TunInv'
BY CallTyped, DeviceTyped, SlotTyped, CallStandsOn, DevicesOwnedOn, RoutesOwnedOn, PlatformStandsOn,
   CallAloneOn, DownStaysTrue, UpStaysTrue DEF TunInv, TunType

LEMMA TunStutters ==
  ASSUME TunInv, UNCHANGED Tun!vars
  PROVE TunInv'
<1> USE DEF Tun!vars, Tun!callVars, Tun!threadVars, Tun!slotVars, Tun!routeVars, Tun!flagVars, Tun!reportVars
<1>1. TunType' BY DEF TunInv, TunType, CallType, DeviceType, SlotType
<1>2. CallStands' BY DEF TunInv, CallStands, HasDevice, HasRoutes, Tun!Capturing
<1>3. DevicesOwned' BY DEF TunInv, DevicesOwned, HasDevice, HasProcessor
<1>4. RoutesOwned' BY DEF TunInv, RoutesOwned, HasRoutes, Tun!Capturing
<1>5. PlatformStands' BY DEF TunInv, PlatformStands
<1>6. CallAlone' BY DEF TunInv, CallAlone, Tun!Capturing
<1>7. Tun!ReportedDownIsDown' BY DEF TunInv, Tun!ReportedDownIsDown, Tun!Quiet
<1>8. Tun!ReportedUpIsUp'
  BY DEF TunInv, Tun!ReportedUpIsUp, Tun!Quiet, Tun!Capturing, Tun!GetTunStatus
<1> QED BY <1>1, <1>2, <1>3, <1>4, <1>5, <1>6, <1>7, <1>8 DEF TunInv

\* A report of enable_tun_mode_with_mode or disable_tun_mode is true, whatever
\* failed on the way and on every platform: a tunnel reported down has left no
\* device, processor, route that captures or resolver behind, and one reported
\* up has the device, the processor and the routes of one start published. Any
\* number of calls of stop_tun_mode, which takes no lock, and failures of the
\* workers may come between the calls (api.rs, netstack/).
THEOREM TunReportAlwaysTrue ==
  ASSUME Tun!TunAssumption
  PROVE Tun!Spec => [](Tun!ReportedDownIsDown /\ Tun!ReportedUpIsUp)
<1>1. Tun!Init => TunInv BY TunStart
<1>2. TunInv /\ [Tun!Next]_(Tun!vars) => TunInv' BY TunKept, TunStutters
<1>3. TunInv => Tun!ReportedDownIsDown /\ Tun!ReportedUpIsUp BY DEF TunInv
<1> QED BY <1>1, <1>2, <1>3, PTL DEF Tun!Spec

==============================================================================
