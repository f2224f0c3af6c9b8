--------------------------- MODULE UdpAssociations ---------------------------
(***************************************************************************)
(* The UDP side of the userspace stack (netstack/solidtcp/stack.rs and     *)
(* udp.rs): a datagram of the tunnel creates or refreshes the session of   *)
(* its flow and goes out through the SOCKS5 association of the flow, which *)
(* is opened on first use and served by a reply pump of its own until the  *)
(* relay has been silent for a while.                                      *)
(*                                                                         *)
(* The packet thread is alone in opening associations; each pump and the   *)
(* cleanup thread run beside it.  Flows stand for (source, destination)    *)
(* pairs.                                                                  *)
(***************************************************************************)
EXTENDS Naturals, FiniteSets

CONSTANTS Flows,       \* the address pairs of the clients
          MaxSessions, \* UdpConfig::max_sessions
          SweepEvery,  \* UDP_ASSOCIATION_SWEEP_EVERY
          MaxOpen,     \* bound of the associations ever opened
          MaxReplies   \* bound of the datagrams that come back

VARIABLES session,   \* per flow: "none", "active" or "stale" (past its timeout)
          doomed,    \* the keys the cleanup thread has collected
          table,     \* udp_associations: flow -> association, 0 for none
          assoc,     \* every association ever opened
          opened,    \* how many
          packet,    \* the packet thread: [pc, flow, id]
          queued,    \* per association: replies the relay has sent
          sent,      \* replies sent so far
          tunUp      \* the receiver of tun_tx exists

vars == <<session, doomed, table, assoc, opened, packet, queued, sent, tunUp>>

Ids == 1 .. MaxOpen
Unused == [flow |-> "none", alive |-> FALSE, pump |-> "none", server |-> FALSE]
Idle == [pc |-> "idle", flow |-> "none", id |-> 0]

Init ==
    /\ session = [f \in Flows |-> "none"]
    /\ doomed = {}
    /\ table = [f \in Flows |-> 0]
    /\ assoc = [i \in Ids |-> Unused]
    /\ opened = 0
    /\ packet = Idle
    /\ queued = [i \in Ids |-> 0]
    /\ sent = 0
    /\ tunUp = TRUE

Live(f) == table[f] # 0 /\ assoc[table[f]].alive

-----------------------------------------------------------------------------
(* The packet thread.                                                      *)

\* handle_udp_data: the session first; at the limit the datagram is dropped.
Datagram(f) ==
    /\ packet.pc = "idle"
    /\ IF session[f] = "none" /\ Cardinality({g \in Flows : session[g] # "none"}) >= MaxSessions
         THEN UNCHANGED <<session, packet>>
         ELSE /\ session' = [session EXCEPT ![f] = "active"]
              /\ packet' = [pc |-> "lookup", flow |-> f, id |-> 0]
    /\ UNCHANGED <<doomed, table, assoc, opened, queued, sent, tunUp>>

\* Mutation: every datagram opens an association of its own.
LookupPerDatagram ==
    /\ packet.pc = "lookup"
    /\ packet' = [packet EXCEPT !.pc = "open"]
    /\ UNCHANGED <<session, doomed, table, assoc, opened, queued, sent, tunUp>>

\* udp_association: a live entry serves the flow, else one is opened.
Lookup ==
    /\ packet.pc = "lookup"
    /\ packet' = IF Live(packet.flow)
                   THEN [packet EXCEPT !.pc = "send", !.id = table[packet.flow]]
                   ELSE [packet EXCEPT !.pc = "open"]
    /\ UNCHANGED <<session, doomed, table, assoc, opened, queued, sent, tunUp>>

\* open_udp_association fails: no connection to the inbound, a refused
\* negotiation or request, an address type it cannot use, no socket, no thread.
OpenFails ==
    /\ packet.pc = "open"
    /\ packet' = Idle
    /\ UNCHANGED <<session, doomed, table, assoc, opened, queued, sent, tunUp>>

\* It succeeds: the relay exists and its pump is running before the table
\* knows of the association.
OpenSucceeds ==
    /\ packet.pc = "open" /\ opened < MaxOpen
    /\ opened' = opened + 1
    /\ assoc' = [assoc EXCEPT ![opened + 1] =
                    [flow |-> packet.flow, alive |-> TRUE, pump |-> "recv", server |-> TRUE]]
    /\ packet' = [packet EXCEPT !.pc = "insert", !.id = opened + 1]
    /\ UNCHANGED <<session, doomed, table, queued, sent, tunUp>>

\* The entry is put in, and every SweepEvery-th one (the counter is read
\* before it is raised) sweeps the dead out of the table, the new one included
\* if its pump has ended meanwhile.
Insert ==
    /\ packet.pc = "insert"
    /\ LET put == [table EXCEPT ![packet.flow] = packet.id]
           swept == [f \in Flows |-> IF put[f] # 0 /\ assoc[put[f]].alive THEN put[f] ELSE 0]
           sweep == (opened - 1) % SweepEvery = 0
       IN  table' = IF sweep THEN swept ELSE put
    /\ packet' = [packet EXCEPT !.pc = "send"]
    /\ UNCHANGED <<session, doomed, assoc, opened, queued, sent, tunUp>>

\* One datagram framed and handed to the relay socket; the relay answers or
\* it does not, and only as long as the server holds the association.
Send(answered) ==
    /\ packet.pc = "send"
    /\ answered => (sent < MaxReplies /\ assoc[packet.id].server)
    /\ queued' = IF answered THEN [queued EXCEPT ![packet.id] = @ + 1] ELSE queued
    /\ sent' = IF answered THEN sent + 1 ELSE sent
    /\ packet' = Idle
    /\ UNCHANGED <<session, doomed, table, assoc, opened, tunUp>>

-----------------------------------------------------------------------------
(* pump_udp_replies, one thread per association.                           *)

\* A reply arrives: it is written to the tunnel, or dropped when its header
\* is unusable, and the wait starts again; a tunnel that is gone ends the pump.
Reply(i, usable) ==
    /\ assoc[i].pump = "recv" /\ queued[i] > 0
    /\ queued' = [queued EXCEPT ![i] = @ - 1]
    /\ assoc' = IF usable /\ ~tunUp THEN [assoc EXCEPT ![i].pump = "leaving"] ELSE assoc
    /\ UNCHANGED <<session, doomed, table, opened, packet, sent, tunUp>>

\* Nothing for UDP_ASSOCIATION_IDLE, or the socket failed.
GoIdle(i) ==
    /\ assoc[i].pump = "recv" /\ queued[i] = 0
    /\ assoc' = [assoc EXCEPT ![i].pump = "leaving"]
    /\ UNCHANGED <<session, doomed, table, opened, packet, queued, sent, tunUp>>

MarkDead(i) ==
    /\ assoc[i].pump = "leaving"
    /\ assoc' = [assoc EXCEPT ![i].alive = FALSE, ![i].pump = "closing"]
    /\ UNCHANGED <<session, doomed, table, opened, packet, queued, sent, tunUp>>

\* Mutation: the pump leaves without closing the control connection.
LeaveOpen(i) ==
    /\ assoc[i].pump = "closing"
    /\ assoc' = [assoc EXCEPT ![i].pump = "done"]
    /\ UNCHANGED <<session, doomed, table, opened, packet, queued, sent, tunUp>>

\* control.shutdown(Both): the server drops its half.
CloseControl(i) ==
    /\ assoc[i].pump = "closing"
    /\ assoc' = [assoc EXCEPT ![i].pump = "done", ![i].server = FALSE]
    /\ UNCHANGED <<session, doomed, table, opened, packet, queued, sent, tunUp>>

-----------------------------------------------------------------------------
(* The cleanup thread and the rest of the world.                           *)

SessionTimesOut(f) ==
    /\ session[f] = "active"
    /\ packet.flow # f
    /\ session' = [session EXCEPT ![f] = "stale"]
    /\ UNCHANGED <<doomed, table, assoc, opened, packet, queued, sent, tunUp>>

CleanupCollect ==
    /\ doomed = {}
    /\ doomed' = {f \in Flows : session[f] = "stale"}
    /\ doomed' # {}
    /\ UNCHANGED <<session, table, assoc, opened, packet, queued, sent, tunUp>>

\* By key, and no second look: a session refreshed since then goes as well.
CleanupRemove(f) ==
    /\ f \in doomed
    /\ doomed' = doomed \ {f}
    /\ session' = [session EXCEPT ![f] = "none"]
    /\ UNCHANGED <<table, assoc, opened, packet, queued, sent, tunUp>>

TunnelGoes ==
    /\ tunUp
    /\ tunUp' = FALSE
    /\ UNCHANGED <<session, doomed, table, assoc, opened, packet, queued, sent>>

PacketStep == Lookup \/ OpenFails \/ OpenSucceeds \/ Insert \/ Send(TRUE) \/ Send(FALSE)
PumpStep(i) == Reply(i, TRUE) \/ Reply(i, FALSE) \/ GoIdle(i) \/ MarkDead(i) \/ CloseControl(i)

Next ==
    \/ \E f \in Flows : Datagram(f) \/ SessionTimesOut(f) \/ CleanupRemove(f)
    \/ PacketStep
    \/ \E i \in Ids : PumpStep(i)
    \/ CleanupCollect
    \/ TunnelGoes

\* The threads run, and a receive that waits times out.
Fairness == WF_vars(PacketStep) /\ \A i \in Ids : WF_vars(PumpStep(i))

Spec == Init /\ [][Next]_vars /\ Fairness

-----------------------------------------------------------------------------
(* Properties.                                                             *)

(* At most one association of a flow is alive, and it is the one the table *)
(* serves the flow from (or is about to): a flow that goes idle and comes  *)
(* back while its old pump is leaving never splits over two relays         *)
(* (stack.rs:808, udp_association; stack.rs:227, the alive flag).          *)
AssociationIsOne ==
    /\ \A i \in Ids : assoc[i].alive =>
         \/ table[assoc[i].flow] = i
         \/ packet.pc = "insert" /\ packet.id = i
    /\ \A i, j \in Ids :
         assoc[i].alive /\ assoc[j].alive /\ assoc[i].flow = assoc[j].flow => i = j

(* stack.rs:161-166: every association ends at the server, a reply that    *)
(* keeps coming aside, whether it went idle, the tunnel went away, or its  *)
(* flow was taken over by a new association.                               *)
AtServer(i) == assoc[i].server
AssociationsEnd == \A i \in Ids : AtServer(i) ~> ~AtServer(i)
=============================================================================
