---------------------------- MODULE EngineLifecycle ----------------------------
(***************************************************************************)
(* src/api.rs and engine/mod.rs: the process-wide engine instance behind   *)
(* an RwLock, and the calls that install, start, reload and stop it.       *)
(*                                                                         *)
(* Callers are threads of the C ABI, the RPC server or the dashboard.      *)
(* CORDUIT_INSTANCE holds at most one engine; each engine ever built has a *)
(* number, its generation.  start() and stop() run under the READ lock, so *)
(* they can interleave with each other; install and reload take the write  *)
(* lock.  parking_lot grants no read lock while a writer is queued.        *)
(* An inbound session is a worker thread that tracks its connection in the *)
(* global ConnectionTracker; the tracker's own steps are the subject of    *)
(* module ConnectionTracker and reset() is one step here.                  *)
(***************************************************************************)
EXTENDS Naturals, FiniteSets

CONSTANTS
  Callers,     \* threads that call the API
  Sessions,    \* inbound connections
  NListeners,  \* inbounds of the profile
  MaxGens,     \* bound on the engines ever built
  MaxOps,      \* bound on the calls a caller makes
  None         \* no caller

LifecycleAssumption ==
  /\ NListeners \in Nat \ {0}
  /\ MaxGens \in Nat /\ MaxOps \in Nat
  /\ None \notin Callers

Gens == 1..MaxGens
Listeners == 1..NListeners

VARIABLES
  inst,      \* CORDUIT_INSTANCE: 0 is None, otherwise a generation
  gens,      \* engines built so far
  readers,   \* callers holding the read lock
  writer,    \* caller holding the write lock
  queued,    \* callers waiting for the write lock
  up,        \* <<generation, listener>> pairs that accept connections
  running,   \* Corduit.running of each generation
  updater,   \* generations whose provider updater runs
  dns,       \* generations whose DNS listener is bound
  ctrl,      \* EXTERNAL_CONTROLLER is up
  cpc,       \* control state of each caller
  at,        \* next listener of a start or stop loop
  ops,       \* calls each caller has begun
  solo,      \* history: the caller whose call began last, if no other was under way
  last,      \* what each caller's last finished call was
  live,      \* sessions in a relay
  served,    \* sessions that were ever accepted
  late,      \* history: sessions accepted while a stop is past its reset
  tracked,   \* sessions in the connection tracker
  token      \* sessions whose connection token is cancelled

lockVars == <<readers, writer, queued>>
callVars == <<ops, solo>>
engVars == <<up, running, updater, dns>>
sessVars == <<live, served, late, tracked, token>>
vars == <<inst, gens, lockVars, engVars, ctrl, cpc, at, callVars, last, sessVars>>

States ==
  {"idle", "stRead", "stInb", "stProv", "stDns", "stRun", "stCtlRead", "stCtl",
   "spCtl", "spReset", "spRead", "spDns", "spProv", "spInb", "spRun", "spDrop",
   "inStop", "inNew", "inSet", "reload"}

TypeOK ==
  /\ inst \in 0..MaxGens
  /\ gens \in 0..MaxGens
  /\ readers \subseteq Callers
  /\ writer \in Callers \cup {None}
  /\ queued \subseteq Callers
  /\ up \subseteq Gens \X Listeners
  /\ running \subseteq Gens
  /\ updater \subseteq Gens
  /\ dns \subseteq Gens
  /\ ctrl \in BOOLEAN
  /\ cpc \in [Callers -> States]
  /\ at \in [Callers -> 1..(NListeners + 1)]
  /\ ops \in [Callers -> 0..MaxOps]
  /\ solo \in Callers \cup {None}
  /\ last \in [Callers -> {"none", "start", "stop", "init", "reload", "error"}]
  /\ live \subseteq Sessions /\ served \subseteq Sessions /\ late \subseteq Sessions
  /\ tracked \subseteq Sessions /\ token \subseteq Sessions

Init ==
  /\ inst = 0 /\ gens = 0
  /\ readers = {} /\ writer = None /\ queued = {}
  /\ up = {} /\ running = {} /\ updater = {} /\ dns = {} /\ ctrl = FALSE
  /\ cpc = [t \in Callers |-> "idle"]
  /\ at = [t \in Callers |-> 1]
  /\ ops = [t \in Callers |-> 0]
  /\ solo = None
  /\ last = [t \in Callers |-> "none"]
  /\ live = {} /\ served = {} /\ late = {} /\ tracked = {} /\ token = {}

-----------------------------------------------------------------------------
(* The lock                                                                *)

CanRead == writer = None /\ queued = {}
ReadLock(t) == CanRead /\ readers' = readers \cup {t} /\ UNCHANGED <<writer, queued>>
ReadUnlock(t) == readers' = readers \ {t} /\ UNCHANGED <<writer, queued>>

\* A writer first joins the queue, then gets the lock once it is free.
Enqueue(t) ==
  /\ cpc[t] \in {"spDrop", "inStop", "inSet", "reload"}
  /\ t \notin queued /\ writer # t
  /\ queued' = queued \cup {t}
  /\ UNCHANGED <<inst, gens, readers, writer, engVars, ctrl, cpc, at, callVars, last, sessVars>>

WriteGrant(t) ==
  /\ t \in queued
  /\ readers = {} /\ writer = None
  /\ writer' = t
  /\ queued' = queued \ {t}
  /\ UNCHANGED <<inst, gens, readers, engVars, ctrl, cpc, at, callVars, last, sessVars>>

WriteUnlock(t) == writer' = None /\ UNCHANGED <<readers, queued>>

-----------------------------------------------------------------------------
Goto(t, from, to) == cpc[t] = from /\ cpc' = [cpc EXCEPT ![t] = to]

Return(t, from, what) ==
  /\ Goto(t, from, "idle")
  /\ last' = [last EXCEPT ![t] = what]

\* No call is under way.
Quiet == \A t \in Callers : cpc[t] = "idle"

Call(t, entry) ==
  /\ ops[t] < MaxOps
  /\ Goto(t, "idle", entry)
  /\ ops' = [ops EXCEPT ![t] = @ + 1]
  /\ solo' = IF Quiet THEN t ELSE None
  /\ at' = [at EXCEPT ![t] = 1]
  /\ UNCHANGED <<inst, gens, lockVars, engVars, ctrl, last, sessVars>>

\* start_corduit, stop_corduit, initialize_corduit, reload_corduit
Calls(t) == \E entry \in {"stRead", "spCtl", "inStop", "reload"} : Call(t, entry)

-----------------------------------------------------------------------------
(* start_corduit: Corduit::start under the read lock, then the controller  *)

StartRead(t) ==
  /\ \/ /\ inst # 0 /\ Goto(t, "stRead", "stInb") /\ ReadLock(t) /\ UNCHANGED last
     \/ /\ inst = 0 /\ CanRead /\ Return(t, "stRead", "error") /\ UNCHANGED lockVars
  /\ UNCHANGED <<inst, gens, engVars, ctrl, at, callVars, sessVars>>

\* One listener: already running, newly bound, or a bind error that ends the
\* call with the earlier listeners left up.
StartInbound(t) ==
  /\ cpc[t] = "stInb" /\ at[t] <= NListeners
  /\ \/ /\ <<inst, at[t]>> \in up
        /\ at' = [at EXCEPT ![t] = @ + 1]
        /\ UNCHANGED <<up, cpc, last, lockVars>>
     \/ /\ <<inst, at[t]>> \notin up
        /\ up' = up \cup {<<inst, at[t]>>}
        /\ at' = [at EXCEPT ![t] = @ + 1]
        /\ UNCHANGED <<cpc, last, lockVars>>
     \/ /\ <<inst, at[t]>> \notin up
        /\ Return(t, "stInb", "error")
        /\ ReadUnlock(t)
        /\ UNCHANGED <<up, at>>
  /\ UNCHANGED <<inst, gens, running, updater, dns, ctrl, callVars, sessVars>>

StartInboundsDone(t) ==
  /\ at[t] > NListeners /\ Goto(t, "stInb", "stProv")
  /\ UNCHANGED <<inst, gens, lockVars, engVars, ctrl, at, callVars, last, sessVars>>

StartProviders(t) ==
  /\ Goto(t, "stProv", "stDns")
  /\ updater' = updater \cup {inst}
  /\ UNCHANGED <<inst, gens, lockVars, up, running, dns, ctrl, at, callVars, last, sessVars>>

\* The updater's thread cannot be spawned: the listeners stay up.
StartProvidersError(t) ==
  /\ Return(t, "stProv", "error")
  /\ ReadUnlock(t)
  /\ UNCHANGED <<inst, gens, engVars, ctrl, at, callVars, sessVars>>

\* Not fatal: the listener may fail to bind.
StartDns(t) ==
  /\ Goto(t, "stDns", "stRun")
  /\ dns' \in {dns, dns \cup {inst}}
  /\ UNCHANGED <<inst, gens, lockVars, up, running, updater, ctrl, at, callVars, last, sessVars>>

\* Fault: the read guard is kept while the controller starts.
StartRunKeepsGuard(t) ==
  /\ Goto(t, "stRun", "stCtlRead")
  /\ running' = running \cup {inst}
  /\ UNCHANGED <<inst, gens, lockVars, up, updater, dns, ctrl, at, callVars, last, sessVars>>

StartRun(t) ==
  /\ Goto(t, "stRun", "stCtlRead")
  /\ running' = running \cup {inst}
  /\ ReadUnlock(t)
  /\ UNCHANGED <<inst, gens, up, updater, dns, ctrl, at, callVars, last, sessVars>>

\* start_external_controller_from_config: the configuration is read under a
\* read lock that is dropped again,
StartControllerRead(t) ==
  /\ CanRead
  /\ \/ inst # 0 /\ Goto(t, "stCtlRead", "stCtl") /\ UNCHANGED last
     \/ inst = 0 /\ Return(t, "stCtlRead", "error")
  /\ UNCHANGED <<inst, gens, lockVars, engVars, ctrl, at, callVars, sessVars>>

\* and the controller is started without it; a failure is only logged.
StartController(t) ==
  /\ Return(t, "stCtl", "start")
  /\ ctrl' \in {ctrl, TRUE}
  /\ UNCHANGED <<inst, gens, lockVars, engVars, at, callVars, sessVars>>

Start(t) ==
  \/ StartRead(t) \/ StartInbound(t) \/ StartInboundsDone(t) \/ StartProviders(t)
  \/ StartProvidersError(t)
  \/ StartDns(t) \/ StartRun(t) \/ StartControllerRead(t) \/ StartController(t)

-----------------------------------------------------------------------------
(* stop_corduit: controller, tracker, Corduit::stop, then drop             *)

\* Fault: the controller is stopped only if the engine says it is running.
StopControllerIfRunning(t) ==
  /\ Goto(t, "spCtl", "spReset")
  /\ ctrl' = (ctrl /\ inst \notin running)
  /\ UNCHANGED <<inst, gens, lockVars, engVars, at, callVars, last, sessVars>>

StopController(t) ==
  /\ Goto(t, "spCtl", "spReset")
  /\ ctrl' = FALSE
  /\ UNCHANGED <<inst, gens, lockVars, engVars, at, callVars, last, sessVars>>

\* Fault: reset() forgets the connections without cancelling them.
StopForgets(t) ==
  /\ Goto(t, "spReset", "spRead")
  /\ tracked' = {}
  /\ UNCHANGED <<inst, gens, lockVars, engVars, ctrl, at, callVars, last, live, served, late, token>>

\* The tracker is reset before the listeners are down.
StopReset(t) ==
  /\ Goto(t, "spReset", "spRead")
  /\ token' = token \cup tracked
  /\ tracked' = {}
  /\ UNCHANGED <<inst, gens, lockVars, engVars, ctrl, at, callVars, last, live, served, late>>

StopRead(t) ==
  /\ \/ /\ inst # 0 /\ Goto(t, "spRead", "spDns") /\ ReadLock(t) /\ UNCHANGED last
     \/ /\ inst = 0 /\ CanRead /\ Return(t, "spRead", "stop") /\ UNCHANGED lockVars
  /\ UNCHANGED <<inst, gens, engVars, ctrl, at, callVars, sessVars>>

StopDns(t) ==
  /\ Goto(t, "spDns", "spProv")
  /\ dns' = dns \ {inst}
  /\ UNCHANGED <<inst, gens, lockVars, up, running, updater, ctrl, at, callVars, last, sessVars>>

StopProviders(t) ==
  /\ Goto(t, "spProv", "spInb")
  /\ updater' = updater \ {inst}
  /\ UNCHANGED <<inst, gens, lockVars, up, running, dns, ctrl, at, callVars, last, sessVars>>

\* One listener at a time: ConnectionListener::stop joins its accept thread.
StopInbound(t) ==
  /\ cpc[t] = "spInb" /\ at[t] <= NListeners
  /\ up' = up \ {<<inst, at[t]>>}
  /\ at' = [at EXCEPT ![t] = @ + 1]
  /\ UNCHANGED <<inst, gens, lockVars, running, updater, dns, ctrl, cpc, callVars, last, sessVars>>

StopInboundsDone(t) ==
  /\ at[t] > NListeners /\ Goto(t, "spInb", "spRun")
  /\ UNCHANGED <<inst, gens, lockVars, engVars, ctrl, at, callVars, last, sessVars>>

StopRun(t) ==
  /\ Goto(t, "spRun", "spDrop")
  /\ running' = running \ {inst}
  /\ ReadUnlock(t)
  /\ UNCHANGED <<inst, gens, up, updater, dns, ctrl, at, callVars, last, sessVars>>

\* Fault: the replaced engine is leaked instead of dropped.
Leaked(g) ==
  /\ UNCHANGED <<up, updater, dns>>
  /\ running' = running \ {g}

\* Dropping an engine stops what it still runs: the listeners and the DNS
\* server stop on drop, the updater's channel closes.
Dropped(g) ==
  /\ up' = {p \in up : p[1] # g}
  /\ running' = running \ {g}
  /\ updater' = updater \ {g}
  /\ dns' = dns \ {g}

StopDrop(t) ==
  /\ writer = t
  /\ Return(t, "spDrop", "stop")
  /\ inst' = 0
  /\ Dropped(inst)
  /\ WriteUnlock(t)
  /\ UNCHANGED <<gens, ctrl, at, callVars, sessVars>>

Stop(t) ==
  \/ StopController(t) \/ StopReset(t) \/ StopRead(t) \/ StopDns(t) \/ StopProviders(t)
  \/ StopInbound(t) \/ StopInboundsDone(t) \/ StopRun(t) \/ StopDrop(t)

-----------------------------------------------------------------------------
(* install_instance                                                        *)

\* The running engine is stopped and dropped under the write lock.
InstallStop(t) ==
  /\ writer = t
  /\ Goto(t, "inStop", "inNew")
  /\ Dropped(inst)
  /\ inst' = 0
  /\ WriteUnlock(t)
  /\ UNCHANGED <<gens, ctrl, at, callVars, last, sessVars>>

\* Corduit::new, without the lock; an invalid profile fails here.
InstallNew(t) ==
  /\ \/ Goto(t, "inNew", "inSet") /\ gens < MaxGens /\ UNCHANGED last
     \/ Return(t, "inNew", "error")
  /\ UNCHANGED <<inst, gens, lockVars, engVars, ctrl, at, callVars, sessVars>>

\* The new engine replaces, and so drops, whatever is installed by now.
InstallSet(t) ==
  /\ writer = t
  /\ gens < MaxGens
  /\ Return(t, "inSet", "init")
  /\ Dropped(inst)
  /\ gens' = gens + 1
  /\ inst' = gens + 1
  /\ WriteUnlock(t)
  /\ UNCHANGED <<ctrl, at, callVars, sessVars>>

\* The bound on generations was used up by another caller meanwhile.
InstallBound(t) ==
  /\ writer = t /\ gens = MaxGens
  /\ Return(t, "inSet", "error")
  /\ WriteUnlock(t)
  /\ UNCHANGED <<inst, gens, engVars, ctrl, at, callVars, sessVars>>

Install(t) == InstallStop(t) \/ InstallNew(t) \/ InstallSet(t) \/ InstallBound(t)

-----------------------------------------------------------------------------
(* reload_corduit, under the write lock                                    *)

\* A router error ends the call before the listeners are touched.  Otherwise
\* the old listeners stop and the new ones start in order up to the first bind
\* error; that error, or one from the outbounds with every listener up, ends
\* the call before the DNS listener is rebound.
Reload(t) ==
  /\ writer = t
  /\ \/ /\ Return(t, "reload", "error")
        /\ UNCHANGED engVars
     \/ /\ inst # 0
        /\ \E n \in 0..NListeners :
             /\ up' = {p \in up : p[1] # inst} \cup ({inst} \X (1..n))
             /\ \/ /\ n = NListeners
                   /\ Return(t, "reload", "reload")
                   /\ \E bound \in BOOLEAN :
                        dns' = IF bound /\ inst \in running THEN dns \cup {inst} ELSE dns \ {inst}
                \/ Return(t, "reload", "error") /\ UNCHANGED dns
        /\ UNCHANGED <<running, updater>>
  /\ WriteUnlock(t)
  /\ UNCHANGED <<inst, gens, ctrl, at, callVars, sessVars>>

-----------------------------------------------------------------------------
(* Inbound sessions                                                        *)

\* A stop that has reset the tracker and not returned yet.
PastReset == {"spRead", "spDns", "spProv", "spInb", "spRun", "spDrop"}

Accept(s) ==
  /\ up # {} /\ s \notin served
  /\ served' = served \cup {s}
  /\ late' = IF \E t \in Callers : cpc[t] \in PastReset THEN late \cup {s} ELSE late
  /\ live' = live \cup {s}
  /\ tracked' = tracked \cup {s}
  /\ UNCHANGED <<inst, gens, lockVars, engVars, ctrl, cpc, at, callVars, last, token>>

SessionEnd(s) ==
  /\ s \in live
  /\ live' = live \ {s}
  /\ tracked' = tracked \ {s}
  /\ UNCHANGED <<inst, gens, lockVars, engVars, ctrl, cpc, at, callVars, last, served, late, token>>

-----------------------------------------------------------------------------
Finished ==
  /\ \A t \in Callers : cpc[t] = "idle" /\ ops[t] = MaxOps
  /\ UNCHANGED vars

\* A call that has begun takes its next step.
Progress(t) == Enqueue(t) \/ WriteGrant(t) \/ Start(t) \/ Stop(t) \/ Install(t) \/ Reload(t)

Next ==
  \/ \E t \in Callers : Calls(t) \/ Progress(t)
  \/ \E s \in Sessions : Accept(s) \/ SessionEnd(s)
  \/ Finished

Spec == Init /\ [][Next]_vars

\* A call that has begun is scheduled.  The calls are bounded, so a lock that
\* a call waits for is left alone in the end: weak fairness is enough.
Fairness == \A t \in Callers : WF_vars(Progress(t))

FairSpec == Spec /\ Fairness

-----------------------------------------------------------------------------
(* Properties                                                              *)

\* However install, start, stop and reload interleave, only the installed
\* engine serves: no listener, updater or DNS server of a replaced engine
\* survives its replacement (they would hold the ports of the next one).
OnlyInstalledServes ==
  /\ \A p \in up : p[1] = inst
  /\ updater \subseteq {inst} /\ dns \subseteq {inst} /\ running \subseteq {inst}

\* A stop that no other call overlaps takes everything down, also after a
\* start that failed half-way, overlapping starts and stops, or a reload that
\* bound only some listeners.
StopIsComplete ==
  \A t \in Callers :
    solo = t /\ cpc[t] = "idle" /\ last[t] = "stop"
      => inst = 0 /\ up = {} /\ updater = {} /\ dns = {} /\ ~ctrl

\* "a close from the UI or a service stop cancels it" (engine/macros.rs:531):
\* once a stop that no other call overlaps has returned, the only relays left
\* with a live token are the ones accepted between its tracker reset and the
\* end of its listeners.
StopCancelsSessions ==
  \A t \in Callers :
    solo = t /\ cpc[t] = "idle" /\ last[t] = "stop" => live \subseteq token \cup late

\* The life cycle leaves nothing behind.
LifecycleIsClean == OnlyInstalledServes /\ StopIsComplete /\ StopCancelsSessions

\* Every call returns: the read lock is never taken twice by one thread
\* against a queued writer (api.rs:843-846).
InCall(t) == cpc[t] # "idle"
CallsReturn == \A t \in Callers : InCall(t) ~> ~InCall(t)
=============================================================================
