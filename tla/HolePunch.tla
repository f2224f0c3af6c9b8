----------------------------- MODULE HolePunch ------------------------------
(***************************************************************************)
(* `nat::punch`: two peers, each behind a NAT that filters by address and  *)
(* port, probe every predicted address of the other once a round until the *)
(* plan's deadline; the first datagram that authenticates ends the race.   *)
(*                                                                         *)
(* A datagram carries its kind, its session id and the key its tag was     *)
(* made with.  The network loses, duplicates, delays, reorders and         *)
(* reflects, which is what the two direction keys are for, and may still   *)
(* hold a probe of an earlier session under the same secret.               *)
(***************************************************************************)
EXTENDS Naturals, FiniteSets

CONSTANTS
    Targets,    \* Targets[r]: the addresses role r probes (prediction)
    Where,      \* Where[r]: the external address role r really has
    Rounds      \* rounds of probe_interval that fit into the deadline

Roles == {"A", "B"}
Other(r) == IF r = "A" THEN "B" ELSE "A"

VARIABLES
    round,      \* round[r]: rounds begun
    reading,    \* reading[r]: in the read phase of a round
    open,       \* open[r]: addresses r's NAT admits datagrams from
    net,        \* datagrams under way, kept: [to, from, kind, session, key]
    outcome,    \* outcome[r]: "racing", "nopath" or "won"
    winner      \* winner[r]: the datagram that won, in a set

vars == <<round, reading, open, net, outcome, winner>>
---------------------------------------------------------------------------
\* The keys derived per direction; a role sends under one, accepts the other.
SendLabel(r) == IF r = "A" THEN "a-to-b" ELSE "b-to-a"
ReceiveLabelSame(r) == IF r = "A" THEN "a-to-b" ELSE "b-to-a"
ReceiveLabel(r) == IF r = "A" THEN "b-to-a" ELSE "a-to-b"

EncodeProbe(r, to, kind) ==
    [to |-> to, from |-> Where[r], kind |-> kind, session |-> 1, key |-> SendLabel(r)]

\* Length, magic and version have been looked at; then session, kind and tag.
ValidateProbe(r, d) ==
    /\ d.session = 1
    /\ d.kind \in {"probe", "ack"}
    /\ d.key = ReceiveLabel(r)

Racing(r) == outcome[r] = "racing"

\* The head of the loop: time is left, so one probe to every target; each of
\* them opens r's filter for that target, and may be lost on the way.
Round(r) ==
    /\ Racing(r) /\ ~reading[r] /\ round[r] < Rounds
    /\ \E arrive \in SUBSET Targets[r] :
          net' = net \cup {EncodeProbe(r, t, "probe") : t \in arrive}
    /\ open' = [open EXCEPT ![r] = @ \cup Targets[r]]
    /\ round' = [round EXCEPT ![r] = @ + 1]
    /\ reading' = [reading EXCEPT ![r] = TRUE]
    /\ UNCHANGED <<outcome, winner>>

\* recv_from timed out at the end of the round.
RoundEnds(r) ==
    /\ Racing(r) /\ reading[r]
    /\ reading' = [reading EXCEPT ![r] = FALSE]
    /\ UNCHANGED <<round, open, net, outcome, winner>>

\* The deadline passed.
NoPath(r) ==
    /\ Racing(r) /\ ~reading[r] /\ round[r] = Rounds
    /\ outcome' = [outcome EXCEPT ![r] = "nopath"]
    /\ UNCHANGED <<round, reading, open, net, winner>>

\* recv_from returned a datagram that passed r's filter.  One that validates
\* is answered and wins; any other is dropped and the read goes on.
Win(r, d) ==
    /\ Racing(r) /\ reading[r]
    /\ d.to = Where[r] /\ d.from \in open[r]
    /\ ValidateProbe(r, d)
    /\ \/ net' = net \cup {EncodeProbe(r, d.from, "ack")}
       \/ net' = net
    /\ open' = [open EXCEPT ![r] = @ \cup {d.from}]
    /\ outcome' = [outcome EXCEPT ![r] = "won"]
    /\ winner' = [winner EXCEPT ![r] = {d}]
    /\ reading' = [reading EXCEPT ![r] = FALSE]
    /\ UNCHANGED round

\* A datagram that comes back from where it was sent to: hairpinned by a NAT or
\* echoed by whoever has the address.
Reflect(d) ==
    /\ net' = net \cup {[d EXCEPT !.to = d.from, !.from = d.to]}
    /\ UNCHANGED <<round, reading, open, outcome, winner>>
---------------------------------------------------------------------------
Init ==
    /\ round = [r \in Roles |-> 0] /\ reading = [r \in Roles |-> FALSE]
    /\ open = [r \in Roles |-> {}]
    /\ net = {[EncodeProbe(r, Where[Other(r)], "probe") EXCEPT !.session = 0] : r \in Roles}
    /\ outcome = [r \in Roles |-> "racing"] /\ winner = [r \in Roles |-> {}]

Step(r) == Round(r) \/ RoundEnds(r) \/ NoPath(r) \/ \E d \in net : Win(r, d)

Next == (\E r \in Roles : Step(r)) \/ \E d \in net : Reflect(d)

Spec == Init /\ [][Next]_vars /\ \A r \in Roles : WF_vars(Step(r))
---------------------------------------------------------------------------
(* Whoever wins really heard the other role of this session: the other one  *)
(* has begun to probe, and its own datagram, reflected to it, never wins    *)
(* (punch.rs:15-29).                                                        *)
WinnerHeardPeer ==
    \A r \in Roles : \A d \in winner[r] : round[Other(r)] > 0 /\ d.key = SendLabel(Other(r))
=============================================================================
