------------------------------- MODULE TimerWheel -------------------------------
(***************************************************************************)
(* common/timer.rs: Timer, the scheduler thread with a heap of deadlines,  *)
(* and TimerHandle, which cancels a schedule when it is dropped.           *)
(*                                                                         *)
(* Every section the code runs under the mutex `inner` is one step; the    *)
(* callback, and the swap of the cancelled flag, run without it and are    *)
(* steps of their own.  `now` is the monotonic clock.                      *)
(***************************************************************************)
EXTENDS Integers, FiniteSets

CONSTANTS
  OneShots,    \* schedules made with Timer::after
  Periodics,   \* schedules made with Timer::every
  Period,      \* Period[t]: the interval of periodic schedule t
  Delays,      \* delays Timer::after may be asked for
  MaxTime      \* bound on the clock

Timers == OneShots \cup Periodics

TimerAssumption ==
  /\ OneShots \cap Periodics = {}
  /\ Period \in [Periodics -> Nat]
  /\ Delays \subseteq Nat
  /\ MaxTime \in Nat

VARIABLES
  now,
  heap,       \* Inner.heap: pairs <<deadline, id>>
  entries,    \* Inner.entries: records [id, timer, anchor]
  nextId,     \* Inner.next_id
  shutdown,   \* Inner.shutdown
  handle,     \* TimerHandle.id of each schedule, 0 before the call
  flag,       \* the AtomicBool shared by an entry and its handle
  cpc,        \* progress of TimerHandle::cancel: "open", "removing", "closed"
  tpc,        \* timer thread: "scan", "parked", "run", "resched", "spin", "exit"
  wakeAt,     \* deadline the parked thread waits for, Never without one
  cur,        \* the entry whose callback the thread is running
  dpc,        \* Drop for Timer: "alive", "notify", "join", "joined"
  fired,      \* history: callbacks run per schedule
  late,       \* history: callbacks run after the flag was set
  first       \* history: first deadline of each schedule

clients == <<handle, flag, cpc, first>>
vars == <<now, heap, entries, nextId, shutdown, handle, flag, cpc, tpc, wakeAt,
          cur, dpc, fired, late, first>>

Never == -1
NoEntry == [id |-> 0, timer |-> CHOOSE t \in Timers : TRUE, anchor |-> 0]
Entry == [id : Nat, timer : Timers, anchor : Int]

TypeOK ==
  /\ now \in 0..MaxTime
  /\ heap \subseteq Nat \X Nat
  /\ entries \subseteq Entry
  /\ nextId \in Nat
  /\ shutdown \in BOOLEAN
  /\ handle \in [Timers -> Nat]
  /\ flag \in [Timers -> BOOLEAN]
  /\ cpc \in [Timers -> {"open", "removing", "closed"}]
  /\ tpc \in {"scan", "parked", "run", "resched", "spin", "exit"}
  /\ wakeAt \in Nat \cup {Never}
  /\ cur \in Entry
  /\ dpc \in {"alive", "notify", "join", "joined"}
  /\ fired \in [Timers -> Nat]
  /\ late \in [Timers -> Nat]
  /\ first \in [Timers -> Nat]

Init ==
  /\ now = 0
  /\ heap = {}
  /\ entries = {}
  /\ nextId = 0
  /\ shutdown = FALSE
  /\ handle = [t \in Timers |-> 0]
  /\ flag = [t \in Timers |-> FALSE]
  /\ cpc = [t \in Timers |-> "open"]
  /\ tpc = "scan"
  /\ wakeAt = Never
  /\ cur = NoEntry
  /\ dpc = "alive"
  /\ fired = [t \in Timers |-> 0]
  /\ late = [t \in Timers |-> 0]
  /\ first = [t \in Timers |-> 0]

\* The order of the binary heap: by deadline, then by id.
Before(g, h) == g[1] < h[1] \/ (g[1] = h[1] /\ g[2] <= h[2])

IsHead(h) == h \in heap /\ \A g \in heap : Before(h, g)

\* Condvar notification: a parked timer thread looks again.
Notify == tpc' = IF tpc = "parked" THEN "scan" ELSE tpc

-----------------------------------------------------------------------------
(* Timer::run                                                              *)

RunShutdown ==
  /\ tpc = "scan"
  /\ shutdown
  /\ tpc' = "exit"
  /\ UNCHANGED <<now, heap, entries, nextId, shutdown, wakeAt, cur, dpc, fired, late, clients>>

\* Nothing is due: wait for a notification, or for the earliest deadline.
RunPark ==
  /\ tpc = "scan"
  /\ ~shutdown
  /\ \/ heap = {} /\ wakeAt' = Never
     \/ \E h \in heap : IsHead(h) /\ h[1] > now /\ wakeAt' = h[1]
  /\ tpc' = "parked"
  /\ UNCHANGED <<now, heap, entries, nextId, shutdown, cur, dpc, fired, late, clients>>

\* wait_for elapsed.
RunDeadline ==
  /\ tpc = "parked"
  /\ wakeAt # Never
  /\ now >= wakeAt
  /\ tpc' = "scan"
  /\ UNCHANGED <<now, heap, entries, nextId, shutdown, wakeAt, cur, dpc, fired, late, clients>>

\* Fault: a due entry is run without looking at its cancelled flag.
PopIgnoringFlag ==
  /\ tpc = "scan"
  /\ ~shutdown
  /\ \E h \in heap :
       /\ IsHead(h)
       /\ h[1] <= now
       /\ heap' = heap \ {h}
       /\ entries' = {e \in entries : e.id # h[2]}
       /\ \/ /\ \A e \in entries : e.id # h[2]
             /\ UNCHANGED <<tpc, cur>>
          \/ \E e \in entries : e.id = h[2] /\ tpc' = "run" /\ cur' = e
  /\ UNCHANGED <<now, nextId, shutdown, wakeAt, dpc, fired, late, clients>>

\* Fault: the entry stays in the table while its callback runs.
PopKeepsEntry ==
  /\ tpc = "scan"
  /\ ~shutdown
  /\ \E h \in heap :
       /\ IsHead(h)
       /\ h[1] <= now
       /\ heap' = heap \ {h}
       /\ \/ /\ \A e \in entries : e.id = h[2] => flag[e.timer]
             /\ UNCHANGED <<tpc, cur>>
          \/ \E e \in entries :
               /\ e.id = h[2]
               /\ ~flag[e.timer]
               /\ tpc' = "run"
               /\ cur' = e
  /\ UNCHANGED <<now, entries, nextId, shutdown, wakeAt, dpc, fired, late, clients>>

\* The head is due: it leaves the heap and its entry leaves the table.  A heap
\* item without an entry, or a cancelled entry, is dropped.
RunPop ==
  /\ tpc = "scan"
  /\ ~shutdown
  /\ \E h \in heap :
       /\ IsHead(h)
       /\ h[1] <= now
       /\ heap' = heap \ {h}
       /\ entries' = {e \in entries : e.id # h[2]}
       /\ \/ /\ \A e \in entries : e.id = h[2] => flag[e.timer]
             /\ UNCHANGED <<tpc, cur>>
          \/ \E e \in entries :
               /\ e.id = h[2]
               /\ ~flag[e.timer]
               /\ tpc' = "run"
               /\ cur' = e
  /\ UNCHANGED <<now, nextId, shutdown, wakeAt, dpc, fired, late, clients>>

\* The callback, without the mutex.
RunJob ==
  /\ tpc = "run"
  /\ fired' = [fired EXCEPT ![cur.timer] = @ + 1]
  /\ late' = [late EXCEPT ![cur.timer] = IF flag[cur.timer] THEN @ + 1 ELSE @]
  /\ tpc' = IF cur.timer \in Periodics THEN "resched" ELSE "scan"
  /\ UNCHANGED <<now, heap, entries, nextId, shutdown, wakeAt, cur, dpc, clients>>

PeriodOf(t) == IF t \in Periodics THEN Period[t] ELSE 0

\* Fault: the next deadline is counted from the clock.
DriftingDeadline(anchor, period, t) == t + period

\* The loop that skips missed ticks: the least anchor + k*period, k >= 1,
\* that lies after t.
NextDeadline(anchor, period, t) ==
  IF anchor + period > t THEN anchor + period
  ELSE anchor + period * (1 + (t - anchor) \div period)

\* The entry goes back under a fresh id.  With a zero period the loop that
\* looks for a deadline after now never ends.
RunReschedule ==
  /\ tpc = "resched"
  /\ LET period == PeriodOf(cur.timer)
         deadline == NextDeadline(cur.anchor, period, now)
     IN \/ /\ period = 0
           /\ tpc' = "spin"
           /\ UNCHANGED <<heap, entries, nextId>>
        \/ /\ period > 0
           /\ nextId' = nextId + 1
           /\ heap' = heap \cup {<<deadline, nextId + 1>>}
           /\ entries' = entries \cup
                {[id |-> nextId + 1, timer |-> cur.timer, anchor |-> deadline - period]}
           /\ tpc' = "scan"
  /\ UNCHANGED <<now, shutdown, wakeAt, cur, dpc, fired, late, clients>>

Run == RunShutdown \/ RunPark \/ RunDeadline \/ RunPop \/ RunJob \/ RunReschedule

-----------------------------------------------------------------------------
(* Timer::after, Timer::every, TimerHandle::cancel, Drop for Timer         *)

\* Fault: the timer thread is not told of the new deadline.
InsertSilently(t, delay) ==
  /\ handle[t] = 0
  /\ dpc = "alive"
  /\ nextId' = nextId + 1
  /\ heap' = heap \cup {<<now + delay, nextId + 1>>}
  /\ entries' = entries \cup {[id |-> nextId + 1, timer |-> t, anchor |-> now + delay]}
  /\ handle' = [handle EXCEPT ![t] = nextId + 1]
  /\ first' = [first EXCEPT ![t] = now + delay]
  /\ UNCHANGED <<now, shutdown, flag, cpc, tpc, wakeAt, cur, dpc, fired, late>>

Insert(t, delay) ==
  /\ handle[t] = 0
  /\ dpc = "alive"
  /\ nextId' = nextId + 1
  /\ heap' = heap \cup {<<now + delay, nextId + 1>>}
  /\ entries' = entries \cup {[id |-> nextId + 1, timer |-> t, anchor |-> now + delay]}
  /\ handle' = [handle EXCEPT ![t] = nextId + 1]
  /\ first' = [first EXCEPT ![t] = now + delay]
  /\ Notify
  /\ UNCHANGED <<now, shutdown, flag, cpc, wakeAt, cur, dpc, fired, late>>

After(t) == t \in OneShots /\ \E d \in Delays : Insert(t, d)

Every(t) == t \in Periodics /\ Insert(t, Period[t])

\* cancel(), and Drop for TimerHandle: only the first caller goes on.
CancelSwap(t) ==
  /\ handle[t] # 0
  /\ cpc[t] = "open"
  /\ flag' = [flag EXCEPT ![t] = TRUE]
  /\ cpc' = [cpc EXCEPT ![t] = "removing"]
  /\ UNCHANGED <<now, heap, entries, nextId, shutdown, handle, tpc, wakeAt, cur,
                 dpc, fired, late, first>>

\* The table is searched for the id the handle was born with.
CancelRemove(t) ==
  /\ cpc[t] = "removing"
  /\ entries' = {e \in entries : e.id # handle[t]}
  /\ cpc' = [cpc EXCEPT ![t] = "closed"]
  /\ Notify
  /\ UNCHANGED <<now, heap, nextId, shutdown, handle, flag, wakeAt, cur, dpc,
                 fired, late, first>>

DropTimer ==
  /\ dpc = "alive"
  /\ shutdown' = TRUE
  /\ dpc' = "notify"
  /\ UNCHANGED <<now, heap, entries, nextId, tpc, wakeAt, cur, fired, late, clients>>

\* Fault: Drop joins without waking the thread.
DropSilently ==
  /\ dpc = "notify"
  /\ dpc' = "join"
  /\ UNCHANGED <<now, heap, entries, nextId, shutdown, tpc, wakeAt, cur, fired, late, clients>>

DropNotify ==
  /\ dpc = "notify"
  /\ dpc' = "join"
  /\ Notify
  /\ UNCHANGED <<now, heap, entries, nextId, shutdown, wakeAt, cur, fired, late, clients>>

DropJoin ==
  /\ dpc = "join"
  /\ tpc = "exit"
  /\ dpc' = "joined"
  /\ UNCHANGED <<now, heap, entries, nextId, shutdown, tpc, wakeAt, cur, fired, late, clients>>

Tick ==
  /\ now < MaxTime
  /\ now' = now + 1
  /\ UNCHANGED <<heap, entries, nextId, shutdown, tpc, wakeAt, cur, dpc, fired, late, clients>>

Next ==
  \/ Run
  \/ \E t \in Timers : After(t) \/ Every(t) \/ CancelSwap(t) \/ CancelRemove(t)
  \/ DropTimer \/ DropNotify \/ DropJoin
  \/ Tick

Spec == Init /\ [][Next]_vars

\* The scheduler thread runs, callbacks return, a cancel() or drop that has
\* begun goes on, and time passes.
Fairness ==
  /\ WF_vars(Run)
  /\ WF_vars(Tick)
  /\ WF_vars(DropNotify) /\ WF_vars(DropJoin)
  /\ \A t \in Timers : WF_vars(CancelRemove(t))

FairSpec == Spec /\ Fairness

-----------------------------------------------------------------------------
(* Properties                                                              *)

\* A schedule is never duplicated: it has at most one entry, counting the one
\* in the thread's hands, so its callbacks cannot overlap.
OneEntryPerSchedule ==
  /\ \A e, f \in entries : e.timer = f.timer => e = f
  /\ tpc \in {"run", "resched"} => \A e \in entries : e.timer # cur.timer

\* A cancellation that races the callback can lose once, never twice: the
\* entry is put back after the callback, but its flag is read before the next.
AtMostOneLateFire == \A t \in Timers : late[t] <= 1

\* "no interval drift accumulation": however late the callbacks run, every
\* deadline of a periodic schedule is a whole number of periods after its
\* first one.
NoDrift ==
  \A e \in entries, h \in heap :
    e.id = h[2] /\ PeriodOf(e.timer) > 0
      => /\ h[1] >= first[e.timer]
         /\ (h[1] - first[e.timer]) % PeriodOf(e.timer) = 0

\* The timer's promises about each schedule, together.
TimerIsExact == OneEntryPerSchedule /\ AtMostOneLateFire /\ NoDrift

\* A due schedule fires unless it is cancelled or the timer is dropped.
Due(t) == handle[t] # 0 /\ now >= first[t]
Honoured(t) == fired[t] > 0 \/ flag[t] \/ shutdown
DueFires == \A t \in Timers : Due(t) ~> Honoured(t)

\* Dropping the timer returns: the thread notices the shutdown.
Dropping == dpc # "alive"
Dropped == dpc = "joined"
DropReturns == Dropping ~> Dropped
=============================================================================
