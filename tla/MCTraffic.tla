----------------------------- MODULE MCTraffic -----------------------------
(*****************************************************************************)
(* The way of a connection through the engine, in two runs: the inbound      *)
(* dialogs, the UDP associations of SOCKS5 and of the userspace stack, the   *)
(* HTTP forwarder, the relay and the connection tracker in one; rules, names *)
(* and proxy groups in the other. They share nothing here: `which` says      *)
(* which of them a behaviour is about.  The relay, whose module this one     *)
(* extends, keeps its own variables; the slots hold those of the others.     *)
(*****************************************************************************)
EXTENDS Relay, Integers

VARIABLES which,  \* the component that runs
          s1, s2, s3, s4, s5, s6, s7, s8, s9, s10, s11, s12, s13, s14, s15, s16, s17, s18,
          s19
          \* the state of that component

\* The slots from the i-th on, and these slots unused.
From19 == <<s19>>
From18 == <<s18, From19>>
From17 == <<s17, From18>>
From16 == <<s16, From17>>
From15 == <<s15, From16>>
From14 == <<s14, From15>>
From13 == <<s13, From14>>
From12 == <<s12, From13>>
From11 == <<s11, From12>>
From10 == <<s10, From11>>
From9 == <<s9, From10>>
From8 == <<s8, From9>>
From7 == <<s7, From8>>
From6 == <<s6, From7>>
From5 == <<s5, From6>>
From4 == <<s4, From5>>
From3 == <<s3, From4>>
From2 == <<s2, From3>>
From1 == <<s1, From2>>

Blank19 == s19 = 0
Blank18 == s18 = 0 /\ Blank19
Blank17 == s17 = 0 /\ Blank18
Blank16 == s16 = 0 /\ Blank17
Blank15 == s15 = 0 /\ Blank16
Blank14 == s14 = 0 /\ Blank15
Blank13 == s13 = 0 /\ Blank14
Blank12 == s12 = 0 /\ Blank13
Blank11 == s11 = 0 /\ Blank12
Blank10 == s10 = 0 /\ Blank11
Blank9 == s9 = 0 /\ Blank10
Blank8 == s8 = 0 /\ Blank9
Blank7 == s7 = 0 /\ Blank8
Blank6 == s6 = 0 /\ Blank7
Blank5 == s5 = 0 /\ Blank6
Blank4 == s4 = 0 /\ Blank5
Blank3 == s3 = 0 /\ Blank4
Blank2 == s2 = 0 /\ Blank3
Blank1 == s1 = 0 /\ Blank2

CONSTANTS None, Exited   \* no datagram, and a thread that is gone

Chunked(cs, t) == [framing |-> "chunked", chunks |-> cs, trailer |-> t, len |-> 0, declared |-> 0]
Sized(f, n, d) == [framing |-> f, chunks |-> << >>, trailer |-> FALSE, len |-> n, declared |-> d]
\* The body limit is 3: bodies below, at and above it, a declared length
\* shorter and longer than the body, one chunk and several, with a trailer.
AllResponses == {Chunked(<<2, 1>>, FALSE), Chunked(<<1>>, TRUE), Chunked(<<2, 2>>, FALSE),
                 Sized("length", 2, 2), Sized("length", 3, 2), Sized("length", 1, 2), Sized("length", 4, 4),
                 Sized("close", 2, 0), Sized("close", 4, 0), Sized("nobody", 0, 0), Sized("bad", 1, 0)}

\* Rules of each kind: on the address with and without no-resolve, on a rule
\* set, and composites of them.
Leaf(t, h, nr) == [type |-> t, hit |-> h, no_resolve |-> nr, set |-> "s", kids |-> << >>, out |-> t]
Compound(t, nr, ks) == [Leaf(t, FALSE, nr) EXCEPT !.kids = ks]
SomeRules ==
  {Leaf("addr", TRUE, FALSE), Leaf("addr", TRUE, TRUE), Leaf("set", FALSE, FALSE),
   Compound("and", FALSE, <<Leaf("name", TRUE, FALSE), Leaf("addr", TRUE, FALSE)>>),
   Compound("or", FALSE, <<Leaf("other", FALSE, FALSE), Leaf("addr", TRUE, TRUE)>>),
   Compound("not", FALSE, <<Leaf("addr", TRUE, FALSE)>>)}
ReloadedRules == {Leaf("set", FALSE, FALSE), Leaf("match", FALSE, FALSE), Compound("or", FALSE, << >>),
                  Compound("not", FALSE, << >>)}

\* Resolver settings, what the servers answer, and policy keys as plain names.
PolicyKeys == {<<"node">>, <<"other">>}
Plan(d, f, k, ps, flt) ==
  [default |-> d, fallback |-> f, policy |-> k, policyServers |-> ps, filter |-> flt]
SomePlans ==
  {Plan({"literal"}, {"named"}, {}, {}, FALSE),
   Plan({"named"}, {"literal"}, PolicyKeys, {"named"}, TRUE)}
SomeAnswers ==
  {[primary |-> "bogon", v6 |-> "none", fallback |-> "good", system |-> TRUE, trusted |-> "good"],
   [primary |-> "fail", v6 |-> "none", fallback |-> "good", system |-> FALSE, trusted |-> "good"]}

\* One session uploads and one downloads: the flows race for the counters.
Tracker == INSTANCE ConnectionTracker WITH
  Sessions <- {"s1", "s2"}, Named <- {}, Flows <- {<<"s1", "up">>, <<"s2", "down">>},
  Closers <- {"c1"}, Resetters <- {"c1"}, MaxChunks <- 1, MaxLookups <- 1,
  connections <- s1, token <- s2, bytes <- s3, total <- s4, realtime <- s5, window <- s6,
  toSwap <- s7, spc <- s8, fpc <- s9, cpc <- s10, ids <- s11, removed <- s12,
  lookups <- s13, lpc <- s14, reported <- s15
ASSUME TrackerTrackerAssumption == Tracker!TrackerAssumption

\* The lookups for the list, with nothing to copy.
Lookups == INSTANCE ConnectionTracker WITH
  Sessions <- {"s1", "s2"}, Named <- {"s1", "s2"}, Flows <- {}, Closers <- {"c1"}, Resetters <- {},
  MaxChunks <- 0, MaxLookups <- 1,
  connections <- s1, token <- s2, bytes <- s3, total <- s4, realtime <- s5, window <- s6,
  toSwap <- s7, spc <- s8, fpc <- s9, cpc <- s10, ids <- s11, removed <- s12,
  lookups <- s13, lpc <- s14, reported <- s15
ASSUME LookupsTrackerAssumption == Lookups!TrackerAssumption

Forward == INSTANCE HttpForward WITH
  Responses <- AllResponses, ReqLens <- {1, 3}, Cap <- 2, MaxBody <- 3,
  resp <- s1, wire <- s2, origin <- s3, up <- s4, down <- s5, aClosed <- s6,
  bClosed <- s7, aBoth <- s8, bBoth <- s9, relay <- s10, upDone <- s11, downDone <- s12,
  pc <- s13, left <- s14, buf <- s15, out <- s16, need <- s17, late <- s18, result <- s19

Inbound == INSTANCE InboundDialogs WITH
  Kinds <- {"socks5", "http", "mixed"}, MaxRequests <- 3,
  kind <- s1, required <- s2, outbounds <- s3, pc <- s4, cred <- s5, command <- s6,
  replies <- s7, tracked <- s8, opened <- s9, requests <- s10

Socks == INSTANCE Socks5Udp WITH
  Endpoints <- {"c1", "c2", "other"}, ClientIp <- {"c1", "c2"}, ControlPeer <- "c2",
  Datagrams <- {"d1", "d2", "d3", "d4"}, MaxWorkers <- 2, Queue <- 1, MaxErrors <- 2,
  None <- None, Exited <- Exited,
  control <- s1, handler <- s2, cancelled <- s3, loop <- s4, pinned <- s5, errors <- s6,
  job <- s7, queue <- s8, workers <- s9, threads <- s10, carried <- s11, replies <- s12,
  unsent <- s13
ASSUME SocksAssociationAssumption == Socks!AssociationAssumption

Assoc == INSTANCE UdpAssociations WITH
  Flows <- {"f", "g"}, MaxSessions <- 1, SweepEvery <- 2, MaxOpen <- 3, MaxReplies <- 1,
  session <- s1, doomed <- s2, table <- s3, assoc <- s4, opened <- s5, packet <- s6,
  queued <- s7, sent <- s8, tunUp <- s9

Rules == INSTANCE RuleRouting WITH
  Rules <- SomeRules, NewRules <- ReloadedRules, MaxRules <- 2, MaxFetches <- 1,
  conf <- s1, runtimeMode <- s2, request <- s3, rules <- s4, defaults <- s5,
  providers <- s6, cache <- s7, lookups <- s8, d <- s9, r <- s10, u <- s11, fetches <- s12

Dns == INSTANCE DnsResolution WITH
  Keys <- PolicyKeys, Plans <- SomePlans, Answers <- SomeAnswers, MaxConfigs <- 2, MaxRetries <- 1,
  plan <- s1, engine <- s2, configs <- s3, live <- s4, retries <- s5, ans <- s6,
  reach <- s7, worker <- s8, caller <- s9, trusted <- s10, captured <- s11
ASSUME DnsDnsAssumption == Dns!DnsAssumption

Groups == INSTANCE ProxyGroups WITH
  Order <- <<"a", "b">>, Strategies <- {"select", "relay", "url-test", "fallback", "load-balance"},
  Rtt <- [m \in {"a", "b"} |-> IF m = "a" THEN 2 ELSE 1], RelayTime <- 3, MaxCalls <- 2, MaxChanges <- 2,
  strategy <- s1, selection <- s2, present <- s3, up <- s4, health <- s5, cursor <- s6,
  prober <- s7, relays <- s8, held <- s9, calls <- s10, changes <- s11

-----------------------------------------------------------------------------
TrafficInit ==
  /\ Init
  /\ \/ which = "relay" /\ Blank1
     \/ which = "tracker" /\ Tracker!Init /\ Blank16
     \/ which = "lookups" /\ Lookups!Init /\ Blank16
     \/ which = "forward" /\ Forward!Init
     \/ which = "inbound" /\ Inbound!Init /\ Blank11
     \/ which = "udp" /\ Socks!Init /\ Blank14
     \/ which = "assoc" /\ Assoc!Init /\ Blank10

relayVars == vars

TrafficNext ==
  \/ which = "relay" /\ Next /\ UNCHANGED <<which, From1>>
  \/ which = "tracker" /\ Tracker!Next /\ UNCHANGED <<which, relayVars, From16>>
  \/ which = "lookups" /\ Lookups!Next /\ UNCHANGED <<which, relayVars, From16>>
  \/ which = "forward" /\ Forward!Next /\ UNCHANGED <<which, relayVars>>
  \/ which = "inbound" /\ Inbound!Next /\ UNCHANGED <<which, relayVars, From11>>
  \/ which = "udp" /\ Socks!Next /\ UNCHANGED <<which, relayVars, From14>>
  \/ which = "assoc" /\ Assoc!Next /\ UNCHANGED <<which, relayVars, From10>>

RoutingInit ==
  /\ Init
  /\ \/ which = "rules" /\ Rules!Init /\ Blank13
     \/ which = "dns" /\ Dns!Init /\ Blank12
     \/ which = "group" /\ Groups!Init /\ Blank12

RoutingNext ==
  \/ which = "rules" /\ Rules!Next /\ UNCHANGED <<which, relayVars, From13>>
  \/ which = "dns" /\ Dns!Next /\ UNCHANGED <<which, relayVars, From12>>
  \/ which = "group" /\ Groups!Next /\ UNCHANGED <<which, relayVars, From12>>

slots == <<which, From1, relayVars>>

trackerVars == Tracker!vars
forwardVars == Forward!vars
inboundVars == Inbound!vars
udpVars == Socks!vars
assocVars == Assoc!vars

\* The fairness of the components, as they state it.
TrafficFairness ==
  /\ WF_relayVars(which = "relay" /\ Setup)
  /\ WF_relayVars(which = "relay" /\ SetupCancelled)
  /\ WF_relayVars(which = "relay" /\ SpawnOk)
  /\ WF_relayVars(which = "relay" /\ Join)
  /\ WF_relayVars(which = "relay" /\ HookRelease)
  /\ \A d \in Dirs : SF_relayVars(which = "relay" /\ Thread(d))
  /\ \A s \in {"s1", "s2"} :
       /\ WF_trackerVars(which = "tracker" /\ Tracker!Heed(s))
       /\ WF_trackerVars(which = "tracker" /\ Tracker!RelayEnd(s))
       /\ WF_trackerVars(which = "tracker" /\ Tracker!Untrack(s))
       /\ WF_trackerVars(which = "lookups" /\ Lookups!Heed(s))
       /\ WF_trackerVars(which = "lookups" /\ Lookups!RelayEnd(s))
       /\ WF_trackerVars(which = "lookups" /\ Lookups!Untrack(s))
       /\ WF_trackerVars(which = "lookups" /\ (Lookups!LookupEnter(s) \/ Lookups!Lookup(s)))
  /\ \A f \in {<<"s1", "up">>, <<"s2", "down">>} :
       /\ WF_trackerVars(which = "tracker" /\ Tracker!Account(f))
       /\ WF_trackerVars(which = "tracker" /\ Tracker!Drain(f))
  /\ WF_trackerVars(which = "tracker" /\ Tracker!Window(Tracker!Poller))
  /\ WF_trackerVars(which = "tracker" /\ Tracker!Close("c1"))
  /\ WF_trackerVars(which = "lookups" /\ Lookups!Close("c1"))
  /\ WF_forwardVars(which = "forward" /\ Forward!Dial)
  /\ WF_forwardVars(which = "forward" /\ Forward!CopyUp)
  /\ WF_forwardVars(which = "forward" /\ Forward!CopyDown)
  /\ WF_forwardVars(which = "forward" /\ Forward!CopyDownFails)
  /\ WF_forwardVars(which = "forward" /\ Forward!CopyDownEnds)
  /\ WF_forwardVars(which = "forward" /\ Forward!Handler)
  /\ WF_forwardVars(which = "forward" /\ Forward!Deadline)
  /\ WF_forwardVars(which = "forward" /\ Forward!OriginEnds)
  /\ WF_inboundVars(which = "inbound" /\ Inbound!Gone)
  /\ WF_inboundVars(which = "inbound" /\ Inbound!ServeConnect)
  /\ WF_inboundVars(which = "inbound" /\ Inbound!Forward)
  /\ WF_inboundVars(which = "inbound" /\ Inbound!RouteConnect)
  /\ WF_inboundVars(which = "inbound" /\ Inbound!Reply)
  /\ WF_inboundVars(which = "inbound" /\ Inbound!Track)
  /\ WF_inboundVars(which = "inbound" /\ Inbound!RelayReturns)
  /\ WF_inboundVars(which = "inbound" /\ Inbound!Untrack)
  /\ WF_inboundVars(which = "inbound" /\ Inbound!Associate)
  /\ WF_inboundVars(which = "inbound" /\ Inbound!ControlEnds)
  /\ WF_udpVars(which = "udp" /\ Socks!ControlEnds)
  /\ WF_udpVars(which = "udp" /\ Socks!JoinRelay)
  /\ WF_udpVars(which = "udp" /\ Socks!LoopStops)
  /\ WF_udpVars(which = "udp" /\ Socks!Submit)
  /\ \A i \in 1 .. 2 : WF_udpVars(which = "udp" /\ Socks!WorkerStep(i))
  /\ WF_assocVars(which = "assoc" /\ Assoc!PacketStep)
  /\ \A i \in 1 .. 3 : WF_assocVars(which = "assoc" /\ Assoc!PumpStep(i))

TrafficSpec == TrafficInit /\ [][TrafficNext]_slots /\ TrafficFairness

-----------------------------------------------------------------------------
(* The components' properties, each for the behaviours of its component.   *)

\* The speed window conserves bytes, the list hides no live relay, and the
\* display lookups are counted (engine/connection_tracker.rs).
TrackerAccounts ==
  /\ which = "tracker" => Tracker!TrackerAccounts
  /\ which = "lookups" => Lookups!TrackerAccounts

\* A forwarded answer is the origin's body (engine/inbound/forward.rs).
ForwardIsExact == which = "forward" => Forward!ForwardedExactly

\* Nothing is opened for a client without valid credentials, and a UDP
\* association serves nobody but its client (engine/inbound/).
InboundIsGuarded == /\ which = "inbound" => Inbound!InboundIsGuarded
                    /\ which = "udp" => Socks!InboundIsGuarded

\* A flow of the userspace stack has one live association, the one it is
\* served from (netstack/solidtcp/stack.rs).
AssociationIsOne == which = "assoc" => Assoc!AssociationIsOne

\* What each component still owes.
TrafficOwes ==
  CASE which = "relay" -> Owed
    [] which = "tracker" -> Tracker!Owed
    [] which = "lookups" -> Lookups!Owed
    [] which = "forward" -> Forward!Owed
    [] which = "inbound" -> Inbound!Owed
    [] which = "udp" -> Socks!Owed
    [] which = "assoc" -> \E i \in 1 .. 3 : Assoc!AtServer(i)

\* Nothing is owed for ever: a cancelled or failed relay returns, a closed
\* connection's session ends and leaves the table, a forwarded request is
\* answered, a dialog ends with nothing tracked, an association's threads end
\* with its control connection, and an association of the userspace stack is
\* ended at the server.
TrafficSettles == <>[]~TrafficOwes

-----------------------------------------------------------------------------
rulesVars == Rules!vars
dnsVars == Dns!vars
groupVars == Groups!vars

RoutingFairness ==
  /\ WF_rulesVars(which = "rules" /\ Rules!Decide)
  /\ WF_rulesVars(which = "rules" /\ Rules!Reloading)
  /\ WF_rulesVars(which = "rules" /\ Rules!UpdateLoad)
  /\ \A w \in Dns!Workers : WF_dnsVars(which = "dns" /\ Dns!ResolveIps(w))
  /\ \A c \in Dns!Callers : WF_dnsVars(which = "dns" /\ Dns!Proceed(c))
  /\ WF_groupVars(which = "group" /\ Groups!ProberStep)
  /\ WF_groupVars(which = "group" /\ Groups!RelayStep)

RoutingSpec == RoutingInit /\ [][RoutingNext]_slots /\ RoutingFairness

\* Resolving late and at most once changes no verdict, and a reload leaves
\* the configured rule providers, each usable (engine/routing.rs).
RoutingIsRight == which = "rules" => Rules!LazyIsEager /\ Rules!ProvidersFollow

\* A resolver in use is not shut down, and none is left running without a
\* user (dns/engine_resolver.rs).
ResolversAreOwned == which = "dns" => Dns!ResolversAreOwned

\* A name under a nameserver-policy is never put to the system's servers
\* after the engine's resolver was asked (dns/engine_resolver.rs, common/socket.rs).
PolicyHasTheLastWord ==
  [][which = "dns" => Dns!PolicyStep]_slots

\* What each component still owes.
RoutingOwes ==
  CASE which = "rules" -> Rules!Owed
    [] which = "dns" -> Dns!Owed
    [] which = "group" -> Groups!Owed

\* A lookup, a routed connection and a reload end; a proxy group leaves its
\* dead members and comes back to those that answer; and the prober of a
\* replaced group ends.
RoutingSettles == <>[]~RoutingOwes
=============================================================================
