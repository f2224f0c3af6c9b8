---------------------------- MODULE ProviderUpdater ----------------------------
(***************************************************************************)
(* engine/provider_updater.rs: the background thread that refreshes the    *)
(* proxy and rule providers and health-checks them.                        *)
(*                                                                         *)
(* Starts are numbered; a start creates a channel and a loop thread that   *)
(* carry its number.  `running` is shared by all of them.  What an         *)
(* iteration does to the registry is the subject of module Providers.      *)
(***************************************************************************)
EXTENDS Naturals, TLAPS

CONSTANTS
  Callers,    \* threads that call start() and stop()
  MaxStarts,  \* bound on the starts that get past the flag
  MaxOps      \* bound on the calls of one caller

ASSUME UpdaterAssumption == MaxStarts \in Nat /\ MaxOps \in Nat

Starts == 1..MaxStarts

VARIABLES
  running,  \* ProviderUpdater.running
  tx,       \* shutdown_tx: 0 is None, otherwise a start's number
  chan,     \* each start's channel: "none", "open", "sent", "closed"
  loop,     \* each start's thread: "none", "wait", "check", "work", "exit", "gone"
  cpc,      \* caller: "idle", "channel", "spawn", "send"
  mine,     \* the start a caller is performing
  nstarts,  \* starts that got past the flag
  ops,      \* calls each caller has begun
  last      \* what each caller's last call was

vars == <<running, tx, chan, loop, cpc, mine, nstarts, ops, last>>

TypeOK ==
  /\ running \in BOOLEAN
  /\ tx \in 0..MaxStarts
  /\ chan \in [Starts -> {"none", "open", "sent", "closed"}]
  /\ loop \in [Starts -> {"none", "wait", "check", "work", "exit", "gone"}]
  /\ cpc \in [Callers -> {"idle", "channel", "spawn", "send"}]
  /\ mine \in [Callers -> 0..MaxStarts]
  /\ nstarts \in 0..MaxStarts
  /\ ops \in [Callers -> 0..MaxOps]
  /\ last \in [Callers -> {"none", "start", "stop", "error"}]

Init ==
  /\ running = FALSE
  /\ tx = 0
  /\ chan = [n \in Starts |-> "none"]
  /\ loop = [n \in Starts |-> "none"]
  /\ cpc = [t \in Callers |-> "idle"]
  /\ mine = [t \in Callers |-> 0]
  /\ nstarts = 0
  /\ ops = [t \in Callers |-> 0]
  /\ last = [t \in Callers |-> "none"]

-----------------------------------------------------------------------------
(* start()                                                                 *)

Begin(t) == cpc[t] = "idle" /\ ops[t] < MaxOps /\ ops' = [ops EXCEPT ![t] = @ + 1]

StartAlreadyRunning(t) ==
  /\ Begin(t)
  /\ running
  /\ last' = [last EXCEPT ![t] = "start"]
  /\ UNCHANGED <<running, tx, chan, loop, cpc, mine, nstarts>>

StartFlag(t) ==
  /\ Begin(t)
  /\ ~running /\ nstarts < MaxStarts
  /\ running' = TRUE
  /\ nstarts' = nstarts + 1
  /\ mine' = [mine EXCEPT ![t] = nstarts + 1]
  /\ cpc' = [cpc EXCEPT ![t] = "channel"]
  /\ UNCHANGED <<tx, chan, loop, last>>

\* Fault: the previous sender is kept alive instead of being replaced.
StartKeepsOldSender(t) ==
  /\ cpc[t] = "channel"
  /\ tx' = IF tx = 0 THEN mine[t] ELSE tx
  /\ chan' = [chan EXCEPT ![mine[t]] = "open"]
  /\ cpc' = [cpc EXCEPT ![t] = "spawn"]
  /\ UNCHANGED <<running, loop, mine, nstarts, ops, last>>

\* A new channel; replacing the stored sender closes the previous one.
StartChannel(t) ==
  /\ cpc[t] = "channel"
  /\ tx' = mine[t]
  /\ chan' = [n \in Starts |->
                IF n = mine[t] THEN "open"
                ELSE IF n = tx /\ chan[n] = "open" THEN "closed" ELSE chan[n]]
  /\ cpc' = [cpc EXCEPT ![t] = "spawn"]
  /\ UNCHANGED <<running, loop, mine, nstarts, ops, last>>

StartSpawn(t) ==
  /\ cpc[t] = "spawn"
  /\ loop' = [loop EXCEPT ![mine[t]] = "wait"]
  /\ cpc' = [cpc EXCEPT ![t] = "idle"]
  /\ last' = [last EXCEPT ![t] = "start"]
  /\ UNCHANGED <<running, tx, chan, mine, nstarts, ops>>

\* The flag stays set although there is no thread.
StartSpawnError(t) ==
  /\ cpc[t] = "spawn"
  /\ cpc' = [cpc EXCEPT ![t] = "idle"]
  /\ last' = [last EXCEPT ![t] = "error"]
  /\ UNCHANGED <<running, tx, chan, loop, mine, nstarts, ops>>

-----------------------------------------------------------------------------
(* stop()                                                                  *)

StopNotRunning(t) ==
  /\ Begin(t)
  /\ ~running
  /\ last' = [last EXCEPT ![t] = "stop"]
  /\ UNCHANGED <<running, tx, chan, loop, cpc, mine, nstarts>>

StopFlag(t) ==
  /\ Begin(t)
  /\ running
  /\ running' = FALSE
  /\ cpc' = [cpc EXCEPT ![t] = "send"]
  /\ UNCHANGED <<tx, chan, loop, mine, nstarts, last>>

\* The sender, whichever is stored by now, is taken and signalled.
StopSend(t) ==
  /\ cpc[t] = "send"
  /\ tx' = 0
  /\ chan' = [n \in Starts |-> IF n = tx THEN "sent" ELSE chan[n]]
  /\ cpc' = [cpc EXCEPT ![t] = "idle"]
  /\ last' = [last EXCEPT ![t] = "stop"]
  /\ UNCHANGED <<running, loop, mine, nstarts, ops>>

-----------------------------------------------------------------------------
(* update_loop                                                             *)

LoopGoto(n, from, to) == loop[n] = from /\ loop' = [loop EXCEPT ![n] = to]

LoopShutdown(n) ==
  /\ chan[n] \in {"sent", "closed"}
  /\ LoopGoto(n, "wait", "exit")
  /\ UNCHANGED <<running, tx, chan, cpc, mine, nstarts, ops, last>>

\* recv_timeout elapses only while the channel has nothing to say.
LoopTick(n) ==
  /\ chan[n] = "open"
  /\ LoopGoto(n, "wait", "check")
  /\ UNCHANGED <<running, tx, chan, cpc, mine, nstarts, ops, last>>

\* Fault: the loop does not look at the flag.
LoopCheckSkipped(n) ==
  /\ LoopGoto(n, "check", "work")
  /\ UNCHANGED <<running, tx, chan, cpc, mine, nstarts, ops, last>>

LoopCheck(n) ==
  /\ LoopGoto(n, "check", IF running THEN "work" ELSE "exit")
  /\ UNCHANGED <<running, tx, chan, cpc, mine, nstarts, ops, last>>

\* One round of updates, registry sync and health checks.
LoopWork(n) ==
  /\ LoopGoto(n, "work", "wait")
  /\ UNCHANGED <<running, tx, chan, cpc, mine, nstarts, ops, last>>

LoopExit(n) ==
  /\ LoopGoto(n, "exit", "gone")
  /\ running' = FALSE
  /\ UNCHANGED <<tx, chan, cpc, mine, nstarts, ops, last>>

Loop(n) == LoopShutdown(n) \/ LoopTick(n) \/ LoopCheck(n) \/ LoopWork(n) \/ LoopExit(n)

-----------------------------------------------------------------------------
Step(t) == StartChannel(t) \/ StartSpawn(t) \/ StartSpawnError(t) \/ StopSend(t)

Next ==
  \/ \E t \in Callers :
       \/ StartAlreadyRunning(t) \/ StartFlag(t) \/ StopNotRunning(t) \/ StopFlag(t)
       \/ Step(t)
  \/ \E n \in Starts : Loop(n)

Spec == Init /\ [][Next]_vars

\* Calls and threads that have begun run on; the check interval elapses.
Fairness ==
  /\ \A t \in Callers : WF_vars(Step(t))
  /\ \A n \in Starts : WF_vars(Loop(n))

FairSpec == Spec /\ Fairness

-----------------------------------------------------------------------------
(* Properties                                                              *)

\* A live thread can always be told to stop: its channel is the stored one,
\* or it has already been signalled or closed.  Two racing callers never leave
\* a sender behind that nobody can reach.
LoopIsReachable ==
  \A n \in Starts : loop[n] \in {"wait", "check", "work"} /\ chan[n] = "open" => tx = n

\* When the updater stays stopped every thread of it ends, also the one of a
\* start() whose stop() came before the channel existed: that one is ended by
\* the flag at its first tick, not by a message.
LoopLeft == ~running /\ \E n \in Starts : loop[n] \notin {"none", "gone"}
StoppedEnds == <>[]~LoopLeft

\* "updater.start().unwrap(); assert!(updater.is_running())"
\* (provider_updater.rs:377): after the caller's start() the updater is
\* running until that caller stops it.
StartedIsRunning == \A t \in Callers : cpc[t] = "idle" /\ last[t] = "start" => running

-----------------------------------------------------------------------------
(* Proofs, for any number of callers, starts and calls                     *)

\* A caller inside start() has a number of its own making.
StartNumbered == \A t \in Callers : cpc[t] \in {"channel", "spawn"} => mine[t] \in Starts

\* At most one channel is open, and its sender is the stored one: a sender is
\* replaced or taken under the lock of shutdown_tx.
OpenIsStored == \A n \in Starts : chan[n] = "open" => tx = n

UpdaterInv == TypeOK /\ StartNumbered /\ OpenIsStored

LEMMA UpdaterInvInit == Init => UpdaterInv
<1> SUFFICES ASSUME Init PROVE UpdaterInv
  OBVIOUS
<1>1. 0 \in 0..MaxStarts /\ 0 \in 0..MaxOps
  BY UpdaterAssumption
<1>2. TypeOK
  BY <1>1 DEF Init, TypeOK
<1>3. StartNumbered /\ OpenIsStored
  BY DEF Init, StartNumbered, OpenIsStored
<1> QED
  BY <1>2, <1>3 DEF UpdaterInv

\* The flag: a call that begins, with or without a change.
LEMMA BeginKeepsInv ==
  ASSUME UpdaterInv, NEW t \in Callers,
         StartAlreadyRunning(t) \/ StartFlag(t) \/ StopNotRunning(t) \/ StopFlag(t)
  PROVE  UpdaterInv'
<1> USE UpdaterAssumption DEF UpdaterInv, Begin, Starts
<1>1. ops' \in [Callers -> 0..MaxOps]
  <2>1. ops \in [Callers -> 0..MaxOps]
    BY DEF TypeOK
  <2>2. ops[t] < MaxOps /\ ops' = [ops EXCEPT ![t] = @ + 1]
    BY DEF StartAlreadyRunning, StartFlag, StopNotRunning, StopFlag
  <2>3. ops[t] + 1 \in 0..MaxOps
    BY <2>1, <2>2
  <2> QED
    BY <2>1, <2>2, <2>3
<1>2. CASE StartAlreadyRunning(t) \/ StopNotRunning(t)
  BY <1>1, <1>2 DEF StartAlreadyRunning, StopNotRunning, TypeOK, StartNumbered, OpenIsStored
<1>3. CASE StartFlag(t)
  <2>1. nstarts + 1 \in Starts
    BY <1>3 DEF StartFlag, TypeOK
  <2>2. TypeOK'
    BY <1>1, <1>3, <2>1 DEF StartFlag, TypeOK
  <2>3. StartNumbered'
    BY <1>3, <2>1 DEF StartFlag, TypeOK, StartNumbered
  <2>4. OpenIsStored'
    BY <1>3 DEF StartFlag, OpenIsStored
  <2> QED
    BY <2>2, <2>3, <2>4
<1>4. CASE StopFlag(t)
  BY <1>1, <1>4 DEF StopFlag, TypeOK, StartNumbered, OpenIsStored
<1> QED
  BY <1>2, <1>3, <1>4

\* The rest of start() and stop(): the channel, the thread, the message.
LEMMA CallKeepsInv ==
  ASSUME UpdaterInv, NEW t \in Callers, Step(t)
  PROVE  UpdaterInv'
<1> USE UpdaterAssumption DEF UpdaterInv, Starts
<1>1. CASE StartChannel(t)
  <2>1. mine[t] \in Starts
    BY <1>1 DEF StartChannel, StartNumbered
  <2>2. TypeOK'
    BY <1>1, <2>1 DEF StartChannel, TypeOK
  <2>3. StartNumbered'
    BY <1>1, <2>1 DEF StartChannel, TypeOK, StartNumbered
  <2>4. OpenIsStored'
    BY <1>1 DEF StartChannel, OpenIsStored
  <2> QED
    BY <2>2, <2>3, <2>4
<1>2. CASE StartSpawn(t)
  BY <1>2 DEF StartSpawn, TypeOK, StartNumbered, OpenIsStored
<1>3. CASE StartSpawnError(t)
  BY <1>3 DEF StartSpawnError, TypeOK, StartNumbered, OpenIsStored
<1>4. CASE StopSend(t)
  BY <1>4 DEF StopSend, TypeOK, StartNumbered, OpenIsStored
<1> QED
  BY <1>1, <1>2, <1>3, <1>4 DEF Step

\* A loop changes its own control state and, at its end, the flag.
LEMMA LoopKeepsInv ==
  ASSUME UpdaterInv, NEW n \in Starts, Loop(n)
  PROVE  UpdaterInv'
  BY DEF Loop, LoopShutdown, LoopTick, LoopCheck, LoopWork, LoopExit, LoopGoto,
         UpdaterInv, TypeOK, StartNumbered, OpenIsStored

LEMMA UpdaterInvStep == UpdaterInv /\ [Next]_vars => UpdaterInv'
<1> SUFFICES ASSUME UpdaterInv, [Next]_vars PROVE UpdaterInv'
  OBVIOUS
<1>1. CASE UNCHANGED vars
  BY <1>1 DEF vars, UpdaterInv, TypeOK, StartNumbered, OpenIsStored
<1>2. CASE Next
  BY <1>2, BeginKeepsInv, CallKeepsInv, LoopKeepsInv DEF Next
<1> QED
  BY <1>1, <1>2

-----------------------------------------------------------------------------
(* Theorems                                                                *)

\* Every loop that runs with an unsignalled channel is the one stop() would
\* signal, however many callers race in start() and stop() and however many
\* loops of earlier starts are still winding down.
THEOREM EveryLoopReachable == Spec => []LoopIsReachable
<1>1. UpdaterInv => LoopIsReachable
  BY DEF UpdaterInv, OpenIsStored, LoopIsReachable
<1> QED
  BY <1>1, UpdaterInvInit, UpdaterInvStep, PTL DEF Spec
=============================================================================
