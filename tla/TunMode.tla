------------------------------- MODULE TunMode -------------------------------
(***************************************************************************)
(* Turning the tunnel on and off: enable_tun_mode_with_mode and            *)
(* disable_tun_mode (api.rs) with the objects they build, publish and roll *)
(* back -- the TUN device and its worker threads (netstack/tun.rs), the    *)
(* packet processor and its loop (netstack/vpn.rs), the route managers of  *)
(* Linux (netstack/route.rs) and Windows (netstack/windows_route.rs), the  *)
(* globals of lib.rs -- and the two Windows calls that touch the same      *)
(* objects: set_windows_proxy_mode and stop_tun_mode.                      *)
(*                                                                         *)
(* enable and disable hold TUN_LIFECYCLE_LOCK, so at most one of them is   *)
(* under way; `step' says how far it is.  Every command that runs another  *)
(* program or asks the system for something may fail.  stop_tun_mode takes *)
(* no lock.  Addresses are dropped: `exclude' stands for the host routes   *)
(* to the proxy servers, `low' and `high' for the two halves of the IPv4   *)
(* space that capture all the traffic.                                     *)
(***************************************************************************)
EXTENDS Integers, FiniteSets

CONSTANTS
  Platforms,      \* the platforms to explore, a subset of {"linux", "windows", "mobile"}
  Modes,          \* the proxy modes callers ask for, a subset of 1 .. 3
  MaxEnable,      \* bound: how many devices a behaviour may start
  MaxLegacy       \* bound: how many times stop_tun_mode is called

TunAssumption ==
  /\ Platforms \subseteq {"linux", "windows", "mobile"}
  /\ Modes \subseteq 1 .. 3
  /\ MaxEnable \in Nat

Gens    == 1 .. MaxEnable
Capture == {"low", "high"}
Routes  == Capture \cup {"exclude"}
Off     == 0
Global  == 1
Direct  == 2
Rule    == 3

VARIABLES
  os,          \* the platform this process was built for
  step,        \* where the call that holds TUN_LIFECYCLE_LOCK is
  want,        \* what that call was asked for
  used,        \* devices started so far
  local,       \* routes owned by the route manager the call is filling
  dev,         \* the devices: open descriptor, running flag, shutdown token
  reader, writer, loop,   \* the threads of each device
  processor,   \* the packet processor of each device
  devSlot, procSlot,      \* the published device and processor, 0 if none
  managed,     \* the published route manager
  kernel,      \* routes of ours in the system's table
  abandoned,   \* history: routes whose manager is gone while they stayed
  mode, trusted, pinned,  \* proxy mode, fallback resolver, outbound interface
  vpnFd,       \* mobile: whether a descriptor has been handed over
  legacy, legacyCalls,    \* where stop_tun_mode is, and how often it was called
  last, status, overlapped   \* last finished call, what it reported, and
                             \* whether stop_tun_mode ran during it

callVars   == <<step, want, used, local>>
threadVars == <<reader, writer, loop>>
slotVars   == <<devSlot, procSlot, managed>>
routeVars  == <<kernel, abandoned>>
flagVars   == <<mode, trusted, pinned, vpnFd>>
reportVars == <<last, status, overlapped>>
vars == <<os, callVars, dev, threadVars, processor, slotVars, routeVars,
          flagVars, legacy, legacyCalls, reportVars>>

NoManager == [held |-> FALSE, added |-> {}, active |-> FALSE]
Report(e, f) == [enabled |-> e, error |-> f]

Init ==
  /\ os \in Platforms
  /\ step = "idle" /\ want = [op |-> "none", mode |-> Off] /\ used = 0 /\ local = {}
  /\ dev = [g \in Gens |-> [open |-> FALSE, running |-> FALSE, cancelled |-> FALSE]]
  /\ reader = [g \in Gens |-> "none"] /\ writer = [g \in Gens |-> "none"]
  /\ loop = [g \in Gens |-> "none"] /\ processor = [g \in Gens |-> "none"]
  /\ devSlot = 0 /\ procSlot = 0 /\ managed = NoManager
  /\ kernel = {} /\ abandoned = {}
  /\ mode = Off /\ trusted = FALSE /\ pinned = FALSE /\ vpnFd = (os = "mobile")
  /\ legacy = "idle" /\ legacyCalls = 0 /\ last = "none" /\ status = Report(FALSE, FALSE) /\ overlapped = FALSE

(***************************************************************************)
(* The objects.                                                            *)
(***************************************************************************)

\* TunDevice::stop returns early once a worker has cleared the running flag
\* and otherwise fires the token the workers look at.
StopDevice(d) ==
  IF d.running THEN [d EXCEPT !.running = FALSE, !.cancelled = TRUE] ELSE d

\* Fault: the drop leaves the token to stop().
DropDeviceOnly(d) == [d EXCEPT !.running = FALSE, !.open = FALSE]

\* Drop for TunDevice: the token is fired in any case, and the descriptor closed.
DropDevice(d) == [d EXCEPT !.running = FALSE, !.cancelled = TRUE, !.open = FALSE]

\* A device that is taken out of its slot is stopped, then dropped.
TakeDevice(g) == [h \in Gens |-> IF h = g THEN DropDevice(StopDevice(dev[h])) ELSE dev[h]]

\* External: the system removes the routes through an interface with it.
WithoutInterface(table, g) == IF g = 0 THEN table ELSE table \ Capture

\* TunPacketProcessor::stop.
StopProcessor(g) == [h \in Gens |-> IF h = g THEN "stopped" ELSE processor[h]]

\* Fault: routes that could not be deleted are forgotten.
ForgetRefused(m, gone) == [m EXCEPT !.added = {}, !.active = FALSE]

\* WindowsRouteManager::disable_global_mode: whatever the system refuses to
\* delete stays with the manager, which then stays active.
DisableGlobalMode(m, gone) ==
  IF m.active THEN [m EXCEPT !.added = @ \ gone, !.active = m.added \ gone # {}] ELSE m

\* RouteManager::restore_routes on Linux drains its list first: a route that
\* could not be deleted is forgotten.
RestoreRoutes(m, gone) == [m EXCEPT !.added = {}]

\* The prefix of the routes that setup_routes / enable_global_mode got in
\* before a command failed; an exclusion that is already there is kept and
\* not owned on Linux, and is an error on Windows.
Installed(table) ==
  LET excl == IF os = "linux" THEN {"exclude"} \ table ELSE {"exclude"}
      all  == {{}, excl, excl \cup {"low"}, excl \cup Capture}
  IN  IF "exclude" \in table /\ os = "windows" THEN {{}} ELSE all

Complete(added) == Capture \subseteq added

(***************************************************************************)
(* The calls under the lock.                                               *)
(***************************************************************************)

Capturing == os # "mobile" /\ want.mode \in {Global, Rule}

Return(e, f) ==
  /\ step' = "idle" /\ last' = want.op /\ status' = Report(e, f)
  /\ local' = {}
  /\ UNCHANGED <<want, used, overlapped>>

Continue(s) == step' = s /\ UNCHANGED <<want, used, local, reportVars>>

BeginEnable(m) ==
  /\ step = "idle" /\ used < MaxEnable
  /\ want' = [op |-> "enable", mode |-> m] /\ step' = "clean"
  /\ overlapped' = (legacy # "idle")
  /\ UNCHANGED <<os, used, local, dev, threadVars, processor, slotVars, routeVars,
                 flagVars, legacy, legacyCalls, last, status>>

BeginDisable ==
  /\ step = "idle"
  /\ want' = [op |-> "disable", mode |-> Off] /\ step' = "clean"
  /\ overlapped' = (legacy # "idle")
  /\ UNCHANGED <<os, used, local, dev, threadVars, processor, slotVars, routeVars,
                 flagVars, legacy, legacyCalls, last, status>>

\* stop_linux_tun_runtime: every part is taken down whatever fails.
CleanLinux ==
  /\ step = "clean" /\ os = "linux"
  /\ \E gone \in SUBSET managed.added :
       /\ kernel' = WithoutInterface(kernel \ gone, devSlot)
       /\ abandoned' = abandoned \cup (managed.added \ gone)
       /\ IF want.op = "disable" \/ gone # managed.added
            THEN Return(FALSE, gone # managed.added)
            ELSE Continue("check")
  /\ managed' = NoManager /\ devSlot' = 0 /\ procSlot' = 0
  /\ dev' = TakeDevice(devSlot) /\ processor' = StopProcessor(procSlot)
  /\ mode' = Off
  /\ UNCHANGED <<os, threadVars, trusted, pinned, vpnFd, legacy, legacyCalls>>

\* stop_windows_tun_runtime: routes that cannot be removed go back into the
\* slot, and the device that serves them stays up.
CleanWindows ==
  /\ step = "clean" /\ os = "windows"
  /\ trusted' = FALSE
  /\ \E gone \in SUBSET managed.added :
       LET left == DisableGlobalMode(managed, gone) IN
       /\ kernel' = IF left.active THEN kernel \ gone
                                   ELSE WithoutInterface(kernel \ gone, devSlot)
       /\ pinned' = IF managed.active /\ ~left.active THEN FALSE ELSE pinned
       /\ IF left.active
            THEN /\ managed' = left
                 /\ Return(TRUE, TRUE)
                 /\ UNCHANGED <<devSlot, procSlot, dev, processor, mode>>
            ELSE /\ managed' = NoManager /\ devSlot' = 0 /\ procSlot' = 0
                 /\ dev' = TakeDevice(devSlot) /\ processor' = StopProcessor(procSlot)
                 /\ mode' = Off
                 /\ IF want.op = "disable" THEN Return(FALSE, FALSE) ELSE Continue("check")
  /\ UNCHANGED <<os, threadVars, abandoned, vpnFd, legacy, legacyCalls>>

\* The first half of start_android_vpn_inner and start_ohos_vpn_inner.
CleanMobile ==
  /\ step = "clean" /\ os = "mobile" /\ want.op = "enable"
  /\ IF ~vpnFd
       THEN /\ Return(FALSE, TRUE) /\ mode' = Off
            /\ UNCHANGED <<devSlot, procSlot, dev, processor>>
       ELSE /\ Continue("check") /\ mode' = want.mode
            /\ devSlot' = 0 /\ procSlot' = 0
            /\ dev' = TakeDevice(devSlot) /\ processor' = StopProcessor(procSlot)
  /\ UNCHANGED <<os, threadVars, managed, routeVars, trusted, pinned, vpnFd, legacy, legacyCalls>>

\* stop_android_vpn_inner and stop_ohos_vpn_inner.
StopMobile ==
  /\ step = "clean" /\ os = "mobile" /\ want.op = "disable"
  /\ Return(FALSE, FALSE)
  /\ devSlot' = 0 /\ procSlot' = 0
  /\ dev' = TakeDevice(devSlot) /\ processor' = StopProcessor(procSlot)
  /\ mode' = Off /\ vpnFd' = FALSE
  /\ UNCHANGED <<os, threadVars, managed, routeVars, trusted, pinned, legacy, legacyCalls>>

\* The engine is not running, its port does not answer, no proxy server is
\* configured or none resolves, the mode is not one Linux supports.
CheckFails ==
  /\ step = "check"
  /\ Return(FALSE, TRUE)
  \* An Err leaves enable through `?', past the reset of the mode.
  /\ mode' \in IF os = "mobile" THEN {Off, mode} ELSE {mode}
  /\ UNCHANGED <<os, dev, threadVars, processor, slotVars, routeVars, trusted, pinned,
                 vpnFd, legacy, legacyCalls>>

\* snapshot_physical_dns_servers: on Windows the resolvers of the physical
\* network are saved before the tunnel hides them.
SavesResolvers == os = "windows" /\ Capturing

CheckPasses ==
  /\ step = "check"
  /\ os = "linux" => want.mode = Global
  /\ Continue("device")
  /\ trusted' = SavesResolvers
  /\ UNCHANGED <<os, dev, threadVars, processor, slotVars, routeVars, mode, pinned,
                 vpnFd, legacy, legacyCalls>>

StartedDevice == [open |-> TRUE, running |-> TRUE, cancelled |-> FALSE]

\* TunDevice::start: the adapter or the descriptor, then a reader and a writer.
DeviceStarts ==
  /\ step = "device"
  /\ step' = "thread" /\ used' = used + 1 /\ UNCHANGED <<want, local, reportVars>>
  /\ dev' = [dev EXCEPT ![used + 1] = StartedDevice]
  /\ reader' = [reader EXCEPT ![used + 1] = "run"]
  /\ writer' = [writer EXCEPT ![used + 1] = "run"]
  /\ UNCHANGED <<os, loop, processor, slotVars, routeVars, flagVars, legacy, legacyCalls>>

\* It fails before there is a thread, or when only the reader could be
\* spawned; the device is dropped either way.
DeviceFails ==
  /\ step = "device"
  /\ \E r \in {"none", "run"} : reader' = [reader EXCEPT ![used + 1] = r]
  /\ dev' = [dev EXCEPT ![used + 1] = DropDevice(@)]
  /\ step' = "idle" /\ used' = used + 1 /\ last' = want.op /\ status' = Report(FALSE, TRUE)
  /\ trusted' = FALSE
  /\ mode' = IF os = "mobile" THEN Off ELSE mode
  /\ UNCHANGED <<os, want, local, overlapped, writer, loop, processor, slotVars, routeVars,
                 pinned, vpnFd, legacy, legacyCalls>>

\* The processor is created and the packet loop spawned.
LoopSpawns ==
  /\ step = "thread"
  /\ Continue("routes")
  /\ processor' = [processor EXCEPT ![used] = "run"]
  /\ loop' = [loop EXCEPT ![used] = "run"]
  /\ UNCHANGED <<os, dev, reader, writer, slotVars, routeVars, flagVars, legacy, legacyCalls>>

\* Without a thread Linux and mobile give up, and their locals are dropped.
\* Windows goes on: the closure is dropped, and with it the receiver.
LoopSpawnFails ==
  /\ step = "thread"
  /\ IF os = "windows"
       THEN /\ Continue("routes")
            /\ processor' = [processor EXCEPT ![used] = "run"]
            /\ UNCHANGED dev
       ELSE /\ Return(FALSE, TRUE)
            /\ processor' = [processor EXCEPT ![used] = "stopped"]
            /\ dev' = [dev EXCEPT ![used] = DropDevice(@)]
  /\ UNCHANGED <<os, threadVars, slotVars, routeVars, flagVars, legacy, legacyCalls>>

RoutesLinux ==
  /\ step = "routes" /\ os = "linux"
  /\ \E added \in Installed(kernel) :
       IF Complete(added)
         THEN /\ local' = added /\ kernel' = kernel \cup added
              /\ step' = "publish" /\ UNCHANGED <<want, used, reportVars>>
              /\ UNCHANGED <<dev, processor, abandoned>>
         ELSE \E gone \in SUBSET added :
              /\ kernel' = WithoutInterface((kernel \cup added) \ gone, used)
              /\ abandoned' = abandoned \cup (added \ gone)
              /\ dev' = [dev EXCEPT ![used] = DropDevice(StopDevice(@))]
              /\ processor' = StopProcessor(used)
              /\ Return(FALSE, TRUE)
  /\ UNCHANGED <<os, threadVars, slotVars, flagVars, legacy, legacyCalls>>

\* enable_global_mode, its rollback, and the second attempt when the manager
\* is dropped.
RoutesWindows ==
  /\ step = "routes" /\ os = "windows" /\ Capturing
  /\ \E added \in Installed(kernel) :
       IF Complete(added)
         THEN /\ local' = added /\ kernel' = kernel \cup added /\ pinned' = TRUE
              /\ step' = "publish" /\ UNCHANGED <<want, used, reportVars>>
              /\ UNCHANGED <<dev, processor, abandoned, mode, trusted>>
         ELSE \E gone \in SUBSET added :
              /\ kernel' = WithoutInterface((kernel \cup added) \ gone, used)
              /\ abandoned' = abandoned \cup (added \ gone)
              /\ pinned' = IF added = gone THEN FALSE ELSE TRUE
              /\ dev' = [dev EXCEPT ![used] = DropDevice(StopDevice(@))]
              /\ processor' = StopProcessor(used)
              /\ mode' = Off /\ trusted' = FALSE
              /\ Return(FALSE, TRUE)
  /\ UNCHANGED <<os, threadVars, slotVars, vpnFd, legacy, legacyCalls>>

\* There is nothing to install: no capture was asked for, or the system did it.
RoutesNone ==
  /\ step = "routes" /\ os # "linux" /\ ~Capturing
  /\ Continue("publish")
  /\ UNCHANGED <<os, dev, threadVars, processor, slotVars, routeVars, flagVars, legacy, legacyCalls>>

Publish ==
  /\ step = "publish" /\ os # "windows"
  /\ devSlot' = used /\ procSlot' = used
  /\ managed' = IF os = "linux" THEN [held |-> TRUE, added |-> local, active |-> TRUE] ELSE managed
  /\ mode' = want.mode
  /\ Return(TRUE, FALSE)
  /\ UNCHANGED <<os, dev, threadVars, processor, routeVars, trusted, pinned, vpnFd, legacy, legacyCalls>>

\* On Windows stop_tun_mode can get between the three stores.
PublishProcessor ==
  /\ step = "publish" /\ os = "windows"
  /\ procSlot' = used /\ Continue("publishRoutes")
  /\ UNCHANGED <<os, dev, threadVars, processor, devSlot, managed, routeVars, flagVars, legacy, legacyCalls>>

PublishRoutes ==
  /\ step = "publishRoutes"
  /\ managed' = [held |-> TRUE, added |-> local, active |-> Capturing]
  /\ Continue("publishDevice")
  /\ UNCHANGED <<os, dev, threadVars, processor, devSlot, procSlot, routeVars, flagVars, legacy, legacyCalls>>

\* Fault: the device is not stored and goes with the call's locals.
PublishDeviceLost ==
  /\ step = "publishDevice"
  /\ dev' = [dev EXCEPT ![used] = DropDevice(@)] /\ mode' = want.mode
  /\ Return(TRUE, FALSE)
  /\ UNCHANGED <<os, devSlot, threadVars, processor, procSlot, managed, routeVars, trusted,
                 pinned, vpnFd, legacy, legacyCalls>>

PublishDevice ==
  /\ step = "publishDevice"
  /\ devSlot' = used /\ mode' = want.mode
  /\ Return(TRUE, FALSE)
  /\ UNCHANGED <<os, dev, threadVars, processor, procSlot, managed, routeVars, trusted,
                 pinned, vpnFd, legacy, legacyCalls>>

\* set_windows_proxy_mode gives up when the lock is taken.
SetWindowsProxyMode(m) ==
  /\ os = "windows" /\ step = "idle"
  /\ ~(managed.held /\ m = Global /\ ~managed.active)
  /\ \E gone \in SUBSET managed.added :
       LET left == IF m # Global THEN DisableGlobalMode(managed, gone) ELSE managed
           bad  == m # Global /\ left.active
       IN  /\ managed' = left
           /\ kernel' = IF m # Global /\ managed.active THEN kernel \ gone ELSE kernel
           /\ pinned' = IF managed.active /\ ~left.active THEN FALSE ELSE pinned
           /\ mode' = IF bad THEN mode ELSE m
  /\ last' = "mode"
  /\ UNCHANGED <<os, callVars, dev, threadVars, processor, devSlot, procSlot, abandoned,
                 trusted, vpnFd, legacy, legacyCalls, status, overlapped>>

\* The platform hands over a new descriptor before the next enable.
SetVpnFd ==
  /\ os = "mobile" /\ ~vpnFd /\ vpnFd' = TRUE
  /\ UNCHANGED <<os, callVars, dev, threadVars, processor, slotVars, routeVars, mode,
                 trusted, pinned, legacy, legacyCalls, reportVars>>

(***************************************************************************)
(* stop_tun_mode, which takes no lock: processor, routes, device.          *)
(***************************************************************************)

LegacyStopProcessor ==
  /\ os = "windows" /\ legacy = "idle" /\ legacyCalls < MaxLegacy
  /\ legacyCalls' = legacyCalls + 1
  /\ legacy' = "routes" /\ overlapped' = (overlapped \/ step # "idle")
  /\ processor' = StopProcessor(procSlot) /\ procSlot' = 0
  /\ UNCHANGED <<os, callVars, dev, threadVars, devSlot, managed, routeVars, flagVars,
                 last, status>>

\* A failure is ignored, the manager dropped, and the drop tries once more.
LegacyStopRoutes ==
  /\ legacy = "routes"
  /\ legacy' = "device" /\ overlapped' = (overlapped \/ step # "idle")
  /\ \E gone \in SUBSET managed.added :
       LET left == DisableGlobalMode(managed, gone) IN
       /\ kernel' = IF managed.active THEN kernel \ gone ELSE kernel
       /\ abandoned' = abandoned \cup left.added
       /\ pinned' = IF managed.active /\ ~left.active THEN FALSE ELSE pinned
  /\ managed' = NoManager
  /\ UNCHANGED <<os, callVars, dev, threadVars, processor, devSlot, procSlot, mode, trusted,
                 vpnFd, legacyCalls, last, status>>

LegacyStopDevice ==
  /\ legacy = "device"
  /\ legacy' = "idle" /\ overlapped' = (overlapped \/ step # "idle")
  /\ dev' = TakeDevice(devSlot) /\ devSlot' = 0
  /\ kernel' = WithoutInterface(kernel, devSlot)
  /\ mode' = Off
  /\ last' = "stop" /\ status' = Report(FALSE, FALSE)
  /\ UNCHANGED <<os, callVars, threadVars, processor, procSlot, managed, abandoned, trusted,
                 pinned, vpnFd, legacyCalls>>

(***************************************************************************)
(* The threads of a device.                                                *)
(***************************************************************************)

threadFrame == <<os, callVars, slotVars, routeVars, flagVars, legacy, legacyCalls, reportVars>>

\* The reader ends when it sees the flag or the token, when its channel is
\* closed, or (Unix) on an error it cannot retry, which clears the flag.
ReaderEnds(g) ==
  /\ reader[g] = "run"
  /\ \/ ~dev[g].running \/ dev[g].cancelled
     \/ loop[g] = "ended" \/ (loop[g] = "none" /\ step \notin {"thread"} /\ used >= g)
  /\ reader' = [reader EXCEPT ![g] = "ended"]
  /\ dev' = IF os = "windows" THEN dev ELSE [dev EXCEPT ![g].running = FALSE]
  /\ UNCHANGED <<threadFrame, writer, loop, processor>>

ReaderFails(g) ==
  /\ reader[g] = "run" /\ os # "windows"
  /\ reader' = [reader EXCEPT ![g] = "ended"]
  /\ dev' = [dev EXCEPT ![g].running = FALSE]
  /\ UNCHANGED <<threadFrame, writer, loop, processor>>

\* The writer looks at the token at least every TUN_POLL_TIMEOUT; its channel
\* is never closed before the token fires, stop() does both.
WriterEnds(g) ==
  /\ writer[g] = "run" /\ dev[g].cancelled
  /\ writer' = [writer EXCEPT ![g] = "ended"]
  /\ dev' = [dev EXCEPT ![g].running = FALSE]
  /\ UNCHANGED <<threadFrame, reader, loop, processor>>

\* The packet loop ends with its channel; Linux and mobile also look at the
\* processor before each packet.  It stops the processor on the way out.
LoopEnds(g) ==
  /\ loop[g] = "run"
  /\ reader[g] = "ended" \/ (os # "windows" /\ processor[g] = "stopped")
  /\ loop' = [loop EXCEPT ![g] = "ended"]
  /\ processor' = StopProcessor(g)
  /\ UNCHANGED <<threadFrame, dev, reader, writer>>

Threads(g) == ReaderEnds(g) \/ WriterEnds(g) \/ LoopEnds(g)

Lifecycle ==
  \/ \E m \in Modes : BeginEnable(m) \/ SetWindowsProxyMode(m)
  \/ BeginDisable \/ CleanLinux \/ CleanWindows \/ CleanMobile \/ StopMobile
  \/ CheckFails \/ CheckPasses \/ DeviceStarts \/ DeviceFails \/ LoopSpawns \/ LoopSpawnFails
  \/ RoutesLinux \/ RoutesWindows \/ RoutesNone
  \/ Publish \/ PublishProcessor \/ PublishRoutes \/ PublishDevice

Next ==
  \/ Lifecycle \/ SetVpnFd
  \/ LegacyStopProcessor \/ LegacyStopRoutes \/ LegacyStopDevice
  \/ \E g \in Gens : Threads(g) \/ ReaderFails(g)

\* The threads are scheduled by the system; calls are not obliged to happen.
Fairness == \A g \in Gens : WF_vars(ReaderEnds(g)) /\ WF_vars(WriterEnds(g)) /\ WF_vars(LoopEnds(g))

Spec == Init /\ [][Next]_vars /\ Fairness

(***************************************************************************)
(* Properties.                                                             *)
(***************************************************************************)

\* get_tun_status.
GetTunStatus ==
  /\ procSlot # 0 /\ processor[procSlot] = "run"
  /\ os = "mobile" => vpnFd
  /\ os = "linux" => devSlot # 0 /\ dev[devSlot].running /\ loop[devSlot] = "run"

Quiet(calls) == step = "idle" /\ legacy = "idle" /\ last \in calls /\ ~overlapped

\* When enable or disable reports that the tunnel is down, whatever failed on
\* the way, nothing of it is left: no published object, no open device, no
\* capture route, no fallback resolver, and no route that is not one the
\* system refused to delete.
ReportedDownIsDown ==
  Quiet({"enable", "disable"}) /\ ~status.enabled =>
    /\ devSlot = 0 /\ procSlot = 0 /\ ~managed.held
    /\ \A g \in Gens : ~dev[g].open /\ processor[g] # "run"
    /\ kernel \cap Capture = {} /\ kernel \subseteq abandoned
    /\ ~trusted /\ (pinned => abandoned # {})
    /\ last = "disable" => mode = Off

\* When enable reports success, device, processor and routes of one and the
\* same start are published, every route in the table has an owner, and the
\* status query agrees unless a worker has failed since.
ReportedUpIsUp ==
  Quiet({"enable"}) /\ status.enabled /\ ~status.error =>
    /\ devSlot = procSlot /\ devSlot # 0
    /\ dev[devSlot].open /\ mode = want.mode
    /\ Capturing => /\ Capture \subseteq kernel /\ kernel \subseteq managed.added \cup abandoned
                    /\ managed.active
    /\ loop[devSlot] = "run" /\ reader[devSlot] = "run" /\ (os = "mobile" => vpnFd) => GetTunStatus

\* Every thread of a device that has been closed ends: reader, writer, and the
\* packet loop behind them, also when a worker had cleared the running flag
\* and stop() had therefore done nothing.
Stopped(g) == g <= used /\ ~dev[g].open
Threadless(g) == reader[g] # "run" /\ writer[g] # "run" /\ loop[g] # "run"
TunThreadsEnd == \A g \in Gens : Stopped(g) ~> Threadless(g)

\* "Both capture modes raise the same route table and differ only in how the
\* engine routes what it captures" (api.rs): a tunnel that is up in either of
\* the two captures.
CaptureModesShareRoutes ==
  os = "windows" /\ step = "idle" /\ legacy = "idle" /\ devSlot # 0
    /\ last = "mode" /\ mode \in {Global, Rule} /\ want.mode \in {Global, Rule}
    /\ status = Report(TRUE, FALSE) /\ ~overlapped
  => Capture \subseteq kernel
=============================================================================
