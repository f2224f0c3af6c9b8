------------------------------- MODULE MCHost -------------------------------
(*****************************************************************************)
(* One run over the parts that hold the process together: the timer thread,  *)
(* the engine's life cycle, the tunnel and the control servers. They share   *)
(* nothing here: `which` says which of them a behaviour is about and the     *)
(* slots hold its variables. ProviderUpdater, which this module extends,     *)
(* keeps its own variables and stands still while another component runs.    *)
(*****************************************************************************)
EXTENDS ProviderUpdater, Integers, FiniteSets

VARIABLES which,  \* the component that runs
          s1, s2, s3, s4, s5, s6, s7, s8, s9, s10, s11, s12, s13, s14, s15, s16, s17, s18,
          s19, s20, s21, s22, s23, s24
          \* the state of that component

\* The slots from the i-th on, and these slots unused.
From24 == <<s24>>
From23 == <<s23, From24>>
From22 == <<s22, From23>>
From21 == <<s21, From22>>
From20 == <<s20, From21>>
From19 == <<s19, From20>>
From18 == <<s18, From19>>
From17 == <<s17, From18>>
From16 == <<s16, From17>>
From15 == <<s15, From16>>
From14 == <<s14, From15>>
From13 == <<s13, From14>>
From12 == <<s12, From13>>
From11 == <<s11, From12>>
From10 == <<s10, From11>>
From9 == <<s9, From10>>
From8 == <<s8, From9>>
From7 == <<s7, From8>>
From6 == <<s6, From7>>
From5 == <<s5, From6>>
From4 == <<s4, From5>>
From3 == <<s3, From4>>
From2 == <<s2, From3>>
From1 == <<s1, From2>>

Blank24 == s24 = 0
Blank23 == s23 = 0 /\ Blank24
Blank22 == s22 = 0 /\ Blank23
Blank21 == s21 = 0 /\ Blank22
Blank20 == s20 = 0 /\ Blank21
Blank19 == s19 = 0 /\ Blank20
Blank18 == s18 = 0 /\ Blank19
Blank17 == s17 = 0 /\ Blank18
Blank16 == s16 = 0 /\ Blank17
Blank15 == s15 = 0 /\ Blank16
Blank14 == s14 = 0 /\ Blank15
Blank13 == s13 = 0 /\ Blank14
Blank12 == s12 = 0 /\ Blank13
Blank11 == s11 = 0 /\ Blank12
Blank10 == s10 = 0 /\ Blank11
Blank9 == s9 = 0 /\ Blank10
Blank8 == s8 = 0 /\ Blank9
Blank7 == s7 = 0 /\ Blank8
Blank6 == s6 = 0 /\ Blank7
Blank5 == s5 = 0 /\ Blank6
Blank4 == s4 = 0 /\ Blank5
Blank3 == s3 = 0 /\ Blank4
Blank2 == s2 = 0 /\ Blank3
Blank1 == s1 = 0 /\ Blank2

CONSTANT None   \* no caller

Timer == INSTANCE TimerWheel WITH
  OneShots <- {1}, Periodics <- {2}, Period <- [t \in {2} |-> 2], Delays <- {0, 3}, MaxTime <- 4,
  now <- s1, heap <- s2, entries <- s3, nextId <- s4, shutdown <- s5, handle <- s6,
  flag <- s7, cpc <- s8, tpc <- s9, wakeAt <- s10, cur <- s11, dpc <- s12, fired <- s13,
  late <- s14, first <- s15
ASSUME TimerTimerAssumption == Timer!TimerAssumption

Engine == INSTANCE EngineLifecycle WITH
  Callers <- {1, 2}, Sessions <- {"s1"}, NListeners <- 2, MaxGens <- 2, MaxOps <- 2, None <- None,
  inst <- s1, gens <- s2, readers <- s3, writer <- s4, queued <- s5, up <- s6,
  running <- s7, updater <- s8, dns <- s9, ctrl <- s10, cpc <- s11, at <- s12, ops <- s13,
  solo <- s14, last <- s15, live <- s16, served <- s17, late <- s18, tracked <- s19,
  token <- s20
ASSUME EngineLifecycleAssumption == Engine!LifecycleAssumption

Tun == INSTANCE TunMode WITH
  Platforms <- {"linux", "windows", "mobile"}, Modes <- {1, 2}, MaxEnable <- 2, MaxLegacy <- 0,
  os <- s1, step <- s2, want <- s3, used <- s4, local <- s5, dev <- s6, reader <- s7,
  writer <- s8, loop <- s9, processor <- s10, devSlot <- s11, procSlot <- s12,
  managed <- s13, kernel <- s14, abandoned <- s15, mode <- s16, trusted <- s17,
  pinned <- s18, vpnFd <- s19, legacy <- s20, legacyCalls <- s21, last <- s22,
  status <- s23, overlapped <- s24
ASSUME TunTunAssumption == Tun!TunAssumption

\* With stop_tun_mode called at any time.
Legacy == INSTANCE TunMode WITH
  Platforms <- {"windows"}, Modes <- {1}, MaxEnable <- 2, MaxLegacy <- 1,
  os <- s1, step <- s2, want <- s3, used <- s4, local <- s5, dev <- s6, reader <- s7,
  writer <- s8, loop <- s9, processor <- s10, devSlot <- s11, procSlot <- s12,
  managed <- s13, kernel <- s14, abandoned <- s15, mode <- s16, trusted <- s17,
  pinned <- s18, vpnFd <- s19, legacy <- s20, legacyCalls <- s21, last <- s22,
  status <- s23, overlapped <- s24
ASSUME LegacyTunAssumption == Legacy!TunAssumption

Control == INSTANCE ControlServer WITH
  Servers <- {"rpc", "controller"}, Idle <- 3, HeadDeadline <- 3, HeadGap <- 2, BodyDeadline <- 3,
  BodyGap <- 2, PingInterval <- 2, MaxRequests <- 2, MaxAhead <- 2,
  server <- s1, secret <- s2, pc <- s3, phase <- s4, wait <- s5, ahead <- s6, frag <- s7,
  got <- s8, begun <- s9, age <- s10, framed <- s11, served <- s12, told <- s13,
  ended <- s14, engine <- s15, calls <- s16, ws <- s17
ASSUME ControlControlAssumption == Control!ControlAssumption

-----------------------------------------------------------------------------
HostInit ==
  \/ which = "updater" /\ Init /\ Blank1
  \/ which = "timer" /\ Timer!Init /\ Blank16 /\ Init
  \/ which = "engine" /\ Engine!Init /\ Blank21 /\ Init
  \/ which = "tun" /\ Tun!Init /\ Init
  \/ which = "legacy" /\ Legacy!Init /\ Init
  \/ which = "control" /\ Control!Init /\ Blank18 /\ Init

HostNext ==
  \/ which = "updater" /\ Next /\ UNCHANGED <<which, From1>>
  \/ which = "timer" /\ Timer!Next /\ UNCHANGED <<which, From16, vars>>
  \/ which = "engine" /\ Engine!Next /\ UNCHANGED <<which, From21, vars>>
  \/ which = "tun" /\ Tun!Next /\ UNCHANGED <<which, vars>>
  \/ which = "legacy" /\ Legacy!Next /\ UNCHANGED <<which, vars>>
  \/ which = "control" /\ Control!Next /\ UNCHANGED <<which, From18, vars>>

slots == <<which, From1, vars>>

timerVars == Timer!vars
engineVars == Engine!vars
tunVars == Tun!vars
controlVars == Control!vars

\* The fairness of the components, as they state it.
HostFairness ==
  /\ \A t \in Callers : WF_vars(which = "updater" /\ Step(t))
  /\ \A n \in Starts : WF_vars(which = "updater" /\ Loop(n))
  /\ WF_timerVars(which = "timer" /\ Timer!Run)
  /\ WF_timerVars(which = "timer" /\ Timer!Tick)
  /\ WF_timerVars(which = "timer" /\ Timer!DropNotify)
  /\ WF_timerVars(which = "timer" /\ Timer!DropJoin)
  /\ \A t \in 1 .. 2 : WF_timerVars(which = "timer" /\ Timer!CancelRemove(t))
  /\ \A t \in 1 .. 2 : WF_engineVars(which = "engine" /\ Engine!Progress(t))
  /\ \A g \in 1 .. 2 : /\ WF_tunVars(which = "tun" /\ Tun!ReaderEnds(g))
                       /\ WF_tunVars(which = "tun" /\ Tun!WriterEnds(g))
                       /\ WF_tunVars(which = "tun" /\ Tun!LoopEnds(g))
                       /\ WF_tunVars(which = "legacy" /\ Legacy!ReaderEnds(g))
                       /\ WF_tunVars(which = "legacy" /\ Legacy!WriterEnds(g))
                       /\ WF_tunVars(which = "legacy" /\ Legacy!LoopEnds(g))
  /\ WF_controlVars(which = "control" /\ Control!Tick)
  /\ WF_controlVars(which = "control" /\ Control!Step)

HostSpec == HostInit /\ [][HostNext]_slots /\ HostFairness

-----------------------------------------------------------------------------
(* The components' properties, each for the behaviours of its component.   *)

\* A schedule is in the wheel once, a cancelled one fires at most once more,
\* and a periodic one does not drift (common/timer.rs).
TimerIsExact == which = "timer" => Timer!TimerIsExact

\* Only the installed engine serves, a stop leaves nothing of it behind, and
\* sessions it let in are told to end (api.rs, engine/mod.rs).
LifecycleIsClean == which = "engine" => Engine!LifecycleIsClean

\* What enabling and disabling the tunnel report is so (api.rs, netstack/).
TunReportIsTrue ==
  /\ which = "tun" => Tun!ReportedDownIsDown /\ Tun!ReportedUpIsUp
  /\ which = "legacy" => Legacy!ReportedDownIsDown /\ Legacy!ReportedUpIsUp

\* Nothing is called without the secret, and no drip of bytes holds a slot of
\* a control server past its budget (rpc/).
ControlIsGuarded == which = "control" => Control!ControlIsGuarded

\* What each component still owes.
Owes ==
  CASE which = "updater" -> LoopLeft
    [] which = "timer" -> \/ \E t \in 1 .. 2 : Timer!Due(t) /\ ~Timer!Honoured(t)
                          \/ Timer!Dropping /\ ~Timer!Dropped
    [] which = "engine" -> \E t \in 1 .. 2 : Engine!InCall(t)
    [] which = "tun" -> \E g \in 1 .. 2 : Tun!Stopped(g) /\ ~Tun!Threadless(g)
    [] which = "legacy" -> \E g \in 1 .. 2 : Legacy!Stopped(g) /\ ~Legacy!Threadless(g)
    [] which = "control" -> ~Control!Ended

\* Nothing is owed for ever: the loops of a stopped updater end; a due timer
\* fires and dropping the wheel returns; a call of the life cycle returns; the
\* threads of a stopped tunnel end; and a connection to a control server ends,
\* unless its peer sends messages in a session for ever.
HostSettles == <>[]~Owes \/ []<><<which = "control" /\ Control!WsMessage>>_slots
=============================================================================
