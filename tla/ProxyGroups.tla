----------------------------- MODULE ProxyGroups -----------------------------
(***************************************************************************)
(* One proxy group (engine/outbound/group.rs) in its manager's registry    *)
(* (engine/outbound.rs): the policy that picks a member for a connection,  *)
(* the health it picks by, the prober thread that measures it, and what    *)
(* keeps the group and its prober alive when the manager reloads or goes.  *)
(*                                                                         *)
(* A latency is a small number: the round trip of a probe (Rtt), or        *)
(* RelayTime, the length of a whole relayed connection.                    *)
(***************************************************************************)
EXTENDS Naturals, Sequences, FiniteSets

CONSTANTS Order,      \* the members in configured order
          Strategies, \* the strategies a run explores
          Rtt,        \* per member: what a probe measures
          RelayTime,  \* longer than any of them
          MaxCalls,   \* bound of the connections and lookups made
          MaxChanges  \* bound of the changes outside the group

Members == {Order[i] : i \in DOMAIN Order}
FailuresBeforeDead == 2
NoLatency == 0

VARIABLES strategy,  \* GroupStrategy, fixed
          selection, \* the group's entry of the global selections
          present,   \* the members in the registry
          up,        \* the members whose server answers
          health,    \* member -> [fails, latency]
          cursor,    \* AtomicUsize, modulo a common multiple of the lengths
          prober,    \* [pc, todo, found]
          relays,    \* the members of the relays in flight (a sequence)
          held,      \* who else holds the group: "list" and "registry"
          calls, changes

vars == <<strategy, selection, present, up, health, cursor, prober, relays, held, calls, changes>>
outside == <<strategy, selection, present, up, held, changes>>

Probing == strategy \in {"url-test", "fallback", "load-balance"}
CursorWrap == 6
Round == [pc |-> "probing", todo |-> Members, found |-> <<>>]
Resting(pc) == [pc |-> pc, todo |-> {}, found |-> <<>>]

\* GroupOutbound::new, build_outbounds and ensure_prober.  A member that is a
\* group configured later is not in the registry yet when the prober starts.
Init ==
    /\ strategy \in Strategies
    /\ selection \in Members \cup {"none"}
    /\ present \in {Members, Members \ {Order[Len(Order)]}}
    /\ up = Members
    /\ health = [m \in Members |-> [fails |-> 0, latency |-> NoLatency]]
    /\ cursor = 0
    /\ prober = IF Probing THEN Round ELSE Resting("ended")
    /\ relays = <<>>
    /\ held = {"list", "registry"}
    /\ calls = 0 /\ changes = 0

-----------------------------------------------------------------------------
(* The choice.                                                             *)

IsAvailable(m) == health[m].fails < FailuresBeforeDead

\* In configured order; all of them when none is left.
AvailableMembers ==
    LET left == SelectSeq(Order, IsAvailable)
    IN  IF left = <<>> THEN Order ELSE left

ManualSelection == IF selection \in Members THEN selection ELSE Order[1]

\* fastest_member: measured before unmeasured, then the lower latency, then the
\* configured order.
Faster(m, n) ==
    \/ health[m].latency # NoLatency /\ health[n].latency = NoLatency
    \/ health[m].latency # NoLatency /\ health[m].latency < health[n].latency
FastestMember ==
    LET s == AvailableMembers
        best == CHOOSE i \in DOMAIN s :
                    /\ \A j \in DOMAIN s : ~Faster(s[j], s[i])
                    /\ \A j \in 1 .. (i - 1) : Faster(s[i], s[j])
    IN  s[best]

\* primary(); only load-balance has a side effect, on the cursor.
Primary ==
    CASE strategy = "select" -> ManualSelection
      [] strategy = "relay" -> Order[1]
      [] strategy = "fallback" -> AvailableMembers[1]
      [] strategy = "url-test" -> FastestMember
      [] OTHER -> AvailableMembers[(cursor % Len(AvailableMembers)) + 1]
TakeTurn == cursor' = IF strategy = "load-balance" THEN (cursor + 1) % CursorWrap ELSE cursor

RecordSuccess(m, latency) == health' = [health EXCEPT ![m] = [fails |-> 0, latency |-> latency]]

\* Mutation: failures are not accumulated.
RecordFailureOnce(m) == health' = [health EXCEPT ![m].fails = 1]

\* saturating_add, and nothing tells two failures from more.
RecordFailure(m) ==
    health' = [health EXCEPT ![m].fails = IF @ < FailuresBeforeDead THEN @ + 1 ELSE @]

-----------------------------------------------------------------------------
(* Connections.                                                            *)

\* relay_tcp_with_connection up to the member's own relay.  A chosen member
\* that is not in the registry is an error and no failure of the member.
Connect ==
    /\ "registry" \in held /\ calls < MaxCalls
    /\ calls' = calls + 1
    /\ TakeTurn
    /\ relays' = IF Primary \in present THEN Append(relays, Primary) ELSE relays
    /\ UNCHANGED <<outside, health, prober>>

\* The relay returns.  A member that answers may fail as well: its target does.
RelayEnds(i, ok) ==
    /\ i \in DOMAIN relays
    /\ ok => relays[i] \in up
    /\ IF ok THEN RecordSuccess(relays[i], RelayTime) ELSE RecordFailure(relays[i])
    /\ relays' = SubSeq(relays, 1, i - 1) \o SubSeq(relays, i + 1, Len(relays))
    /\ UNCHANGED <<outside, cursor, prober, calls>>

\* effective_member, server_addr, supports_udp, relay_udp_packet, udp_submit and
\* test_http_latency on the group: they resolve and record nothing.
Resolve ==
    /\ "registry" \in held /\ calls < MaxCalls
    /\ calls' = calls + 1
    /\ TakeTurn
    /\ UNCHANGED <<outside, health, prober, relays>>

-----------------------------------------------------------------------------
(* The prober.                                                             *)

\* A worker of probe_all: at most eight at a time, so in any order.
ProbeMember(m) ==
    /\ prober.pc = "probing" /\ m \in prober.todo
    /\ prober' = [prober EXCEPT !.todo = @ \ {m},
                                !.found = Append(@, [m |-> m, ok |-> m \in present \cap up])]
    /\ UNCHANGED <<outside, health, cursor, relays, calls>>

\* The results are recorded one by one when the last worker is done.
RecordProbe ==
    /\ prober.pc = "probing" /\ prober.todo = {} /\ prober.found # <<>>
    /\ LET r == Head(prober.found)
       IN  IF r.ok THEN RecordSuccess(r.m, Rtt[r.m]) ELSE RecordFailure(r.m)
    /\ prober' = [prober EXCEPT !.found = Tail(@)]
    /\ UNCHANGED <<outside, cursor, relays, calls>>

Held == held # {} \/ relays # <<>>

\* Mutation: the thread owns the group.
NextTurnOwning ==
    /\ prober.pc = "probing" /\ prober.todo = {} /\ prober.found = <<>>
    /\ prober' = Resting("waiting")
    /\ UNCHANGED <<outside, health, cursor, relays, calls>>

\* The round's reference is dropped, and the next turn needs one: upgrade()
\* fails when nobody else holds the group.
NextTurn ==
    /\ prober.pc = "probing" /\ prober.todo = {} /\ prober.found = <<>>
    /\ prober' = Resting(IF Held THEN "waiting" ELSE "ended")
    /\ UNCHANGED <<outside, health, cursor, relays, calls>>

\* cancelled.wait(probe_interval) runs out; shutdown() has no caller.
WaitOver ==
    /\ prober.pc = "waiting"
    /\ prober' = Round
    /\ UNCHANGED <<outside, health, cursor, relays, calls>>

-----------------------------------------------------------------------------
(* The manager and the world.                                              *)

Change == changes < MaxChanges /\ changes' = changes + 1

ServerChanges(m) ==
    /\ Change
    /\ up' = IF m \in up THEN up \ {m} ELSE up \cup {m}
    /\ UNCHANGED <<strategy, selection, present, health, cursor, prober, relays, held, calls>>

\* sync_provider_proxies, or the rest of build_outbounds: the registry changes,
\* the group's list of members does not.
RegistryChanges(m) ==
    /\ Change /\ "list" \in held
    /\ present' = IF m \in present THEN present \ {m} ELSE present \cup {m}
    /\ UNCHANGED <<strategy, selection, up, health, cursor, prober, relays, held, calls>>

\* set_selector_proxy: any name, if the group is in the registry.
SetSelectorProxy(m) ==
    /\ Change /\ "list" \in held
    /\ selection' = m
    /\ UNCHANGED <<strategy, present, up, health, cursor, prober, relays, held, calls>>

\* reload: the registry is emptied and filled with new groups, the list replaced.
Reload ==
    /\ Change /\ "list" \in held
    /\ held' = {}
    /\ UNCHANGED <<strategy, selection, present, up, health, cursor, prober, relays, calls>>

\* The engine drops its manager.  The group holds the registry and the registry
\* holds the group.
DropManager ==
    /\ Change /\ "list" \in held
    /\ held' = {"registry"}
    /\ UNCHANGED <<strategy, selection, present, up, health, cursor, prober, relays, calls>>

ProberStep == (\E m \in Members : ProbeMember(m)) \/ RecordProbe \/ NextTurn \/ WaitOver
RelayStep == \E i \in DOMAIN relays, ok \in BOOLEAN : RelayEnds(i, ok)

Next ==
    \/ ProberStep
    \/ RelayStep
    \/ Connect
    \/ Resolve
    \/ \E m \in Members : ServerChanges(m) \/ RegistryChanges(m) \/ SetSelectorProxy(m)
    \/ Reload
    \/ DropManager

\* The prober thread runs and its wait is timed; every relay returns (the
\* relay's own deadlines and cancellation, see Relay).
Fairness == WF_vars(ProberStep) /\ WF_vars(RelayStep)

Spec == Init /\ [][Next]_vars /\ Fairness

-----------------------------------------------------------------------------
(* Properties.                                                             *)

Good == present \cap up
Candidates ==
    IF strategy = "load-balance" THEN {AvailableMembers[i] : i \in DOMAIN AvailableMembers}
    ELSE {Primary}

(* group.rs:16-18, 43-46: a member that goes away and stays away is left,  *)
(* and one that comes back is used again, whatever relays in flight and a  *)
(* probe round that began earlier record late; url-test ends at the        *)
(* fastest of the members that answer, however long relays lasted.         *)
Settled ==
    (Probing /\ held # {} /\ Good # {}) =>
        /\ Candidates \subseteq Good
        /\ strategy = "load-balance" => Candidates = Good
        /\ strategy = "url-test" => \A m \in Good : Rtt[Primary] <= Rtt[m]
DeadIsLeft == <>[]Settled

(* group.rs:466-476: the prober has a weak reference only, so the one of a *)
(* group that a reload has replaced ends, the round it is in and the wait  *)
(* that holds the group notwithstanding.                                   *)
ReplacedProberEnds == (held = {}) ~> (prober.pc = "ended")

Owed == ~Settled \/ (held = {} /\ prober.pc # "ended")

(* group.rs:495: "Stop the probe loop. Called when the group is dropped by *)
(* the engine."  Nothing calls it, and the registry the group holds keeps  *)
(* the group.                                                              *)
DroppedProberEnds == ("list" \notin held) ~> (prober.pc = "ended")
=============================================================================
