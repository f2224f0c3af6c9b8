---------------------------- MODULE NatDiscovery ----------------------------
(***************************************************************************)
(* How `nat::discover` measures the NAT this host is behind: the STUN      *)
(* client (`nat::stun`) sends binding requests to an RFC 5780 server, each *)
(* transmission under a fresh transaction id, and `discover` runs the six  *)
(* requests of the test plan in order, on one socket.                      *)
(*                                                                         *)
(* The NAT and the server are the environment.  The NAT creates a mapping  *)
(* and an inbound allowance when a datagram leaves, and judges a datagram  *)
(* by the allowances of the moment it ARRIVES; an answer may be lost,      *)
(* duplicated or arrive when a later request is already out.               *)
(***************************************************************************)
EXTENDS Naturals, FiniteSets, Sequences, SequencesExt

CONSTANTS
    Servers,        \* what the server may be: "rfc5780", "plain", "ignores"
    Families,       \* address families: subset of {"v4", "v6"}
    Strides,        \* steps by which the NAT's port allocator may advance
    Transmissions,  \* MAX_TRANSMISSIONS, scaled down
    Low, High,      \* the ephemeral range, scaled down
    First,          \* ports the allocator may stand at when discovery starts
    Window          \* the window given to predict_external_ports

Kinds == {"EndpointIndependent", "AddressDependent", "AddressAndPortDependent"}
Primary == <<1, 1>>          \* config.server: <<address, port>>
Alternate == <<2, 2>>        \* the server's OTHER-ADDRESS
Nothing == "none"

VARIABLES
    env,        \* the NAT and the server: fixed by Init
    mappings,   \* NAT: mapping key -> external port
    allowed,    \* NAT: the server addresses this socket has written to
    lastPort,   \* NAT: the port its allocator handed out last
    net,        \* answers sent by the server, kept: they may arrive repeatedly
    test,       \* the request of the plan under way, or "done", "failed"
    sent,       \* transmissions of the current `binding` call
    tid,        \* transaction id of the last transmission
    waiting,    \* `read_until` is in recv_from
    profile     \* the NatProfile being filled in

vars == <<env, mappings, allowed, lastPort, net, test, sent, tid, waiting, profile>>
---------------------------------------------------------------------------
\* ChangeRequest of each request of the plan, and the server it is sent to.
Change(t) == CASE t = "both" -> [ip |-> TRUE,  port |-> TRUE]
               [] t = "port" -> [ip |-> FALSE, port |-> TRUE]
               [] OTHER      -> [ip |-> FALSE, port |-> FALSE]

SetServer(t) == CASE t = "second" -> <<Alternate[1], Primary[2]>>
                  [] t = "third"  -> Alternate
                  [] OTHER        -> Primary

(* --- the NAT ----------------------------------------------------------- *)

Key(kind, to) == CASE kind = "EndpointIndependent"     -> <<>>
                   [] kind = "AddressDependent"        -> <<to[1]>>
                   [] kind = "AddressAndPortDependent" -> to

NextPort(p) == Low + ((p - Low + env.stride) % (High - Low + 1))

Admits(from) == CASE env.filtering = "EndpointIndependent" -> TRUE
                  [] env.filtering = "AddressDependent" -> \E a \in allowed : a[1] = from[1]
                  [] env.filtering = "AddressAndPortDependent" -> from \in allowed

(* --- the server -------------------------------------------------------- *)

Swap(n) == 3 - n
AnswersFrom(to, request) ==
    IF env.server = "ignores" \/ request.attributes = <<>> THEN to
    ELSE LET change == request.attributes[1]
         IN <<IF change.ip THEN Swap(to[1]) ELSE to[1],
              IF change.port THEN Swap(to[2]) ELSE to[2]>>

\* XOR-MAPPED-ADDRESS always; a server of RFC 5780 adds RESPONSE-ORIGIN and
\* OTHER-ADDRESS, which are plain addresses.
Attributes(port, from) ==
    <<[type |-> "xor-mapped", port |-> port]>>
    \o IF env.server = "plain" THEN <<>>
       ELSE <<[type |-> "origin", addr |-> from], [type |-> "other", addr |-> Alternate]>>

(* --- the STUN codec and client ----------------------------------------- *)

\* decode_address: a plain IPv6 address needs the transaction id that only an
\* XORed attribute is given, so it is refused, and the whole message with it.
DecodeAddress(a) == a.type = "xor-mapped" \/ env.family = "v4"

Decode(attributes) == \A i \in DOMAIN attributes : DecodeAddress(attributes[i])

ValidateAnyId(m) == Decode(m.attributes)
Validate(m) == Decode(m.attributes) /\ m.tid = tid

Find(m, type) == SelectSeq(m.attributes, LAMBDA a : a.type = type)
MappedAddress(m) == Find(m, "xor-mapped")[1].port
OtherAddress(m) == IF Find(m, "other") = <<>> THEN Nothing ELSE Find(m, "other")[1].addr

\* The request on the wire: CHANGE-REQUEST only when something is to change.
Encode(id, change) ==
    [tid |-> id,
     attributes |-> IF change = Change("baseline") THEN <<>>
                    ELSE <<[type |-> "change-request", ip |-> change.ip, port |-> change.port]>>]

\* One transmission of `binding`: a fresh id, the request out through the NAT,
\* and (unless it is lost) the server's answer on its way.
Transmit ==
    /\ test \notin {"done", "failed"} /\ ~waiting /\ sent < Transmissions
    /\ LET to   == SetServer(test)
           key  == Key(env.mapping, to)
           port == IF key \in DOMAIN mappings THEN mappings[key] ELSE NextPort(lastPort)
           from == AnswersFrom(to, Encode(tid + 1, Change(test)))
       IN /\ mappings' = [k \in DOMAIN mappings \cup {key} |->
                            IF k = key THEN port ELSE mappings[k]]
          /\ lastPort' = IF key \in DOMAIN mappings THEN lastPort ELSE port
          /\ allowed' = allowed \cup {to}
          /\ \/ net' = net \cup {[tid |-> tid + 1, from |-> from,
                                  attributes |-> Attributes(port, from)]}
             \/ net' = net
    /\ tid' = tid + 1 /\ sent' = sent + 1 /\ waiting' = TRUE
    /\ UNCHANGED <<env, test, profile>>

(* --- discover ----------------------------------------------------------- *)

\* `binding` of the current request ended; what `discover` does with Ok.
OnOk(m) ==
    LET p == MappedAddress(m)
        port == Append(profile.samples, p)
    IN CASE test = "baseline" ->
              /\ profile' = [profile EXCEPT !.samples = port, !.other = OtherAddress(m)]
              /\ test' = IF OtherAddress(m) = Nothing THEN "done" ELSE "both"
         [] test = "both" -> /\ profile' = [profile EXCEPT !.filtering = "EndpointIndependent"]
                             /\ test' = "second"
         [] test = "port" -> /\ profile' = [profile EXCEPT !.filtering = "AddressDependent"]
                             /\ test' = "second"
         [] test = "again" -> /\ profile' = [profile EXCEPT !.filtering = "AddressAndPortDependent"]
                              /\ test' = "second"
         [] test = "second" -> /\ profile' = [profile EXCEPT !.samples = port]
                               /\ test' = "third"
         [] test = "third" ->
              /\ profile' = [profile EXCEPT !.samples = port,
                    !.mapping = IF profile.samples[2] = profile.samples[1] THEN "EndpointIndependent"
                                ELSE IF p = profile.samples[2] THEN "AddressDependent"
                                ELSE "AddressAndPortDependent"]
              /\ test' = "done"

\* And what it does with Err: the next test of the plan, or the end.
AfterErr == CASE test = "baseline" -> "failed" [] test = "both" -> "port"
              [] test = "port" -> "again"      [] test = "again" -> "second"
              [] test \in {"second", "third"} -> "done"

\* recv_from returned a datagram the NAT let through: the current answer ends
\* the call, anything else is ignored and the read goes on.
Receive(m) ==
    /\ waiting /\ Admits(m.from)
    /\ Validate(m)
    /\ OnOk(m)
    /\ waiting' = FALSE /\ sent' = 0
    /\ UNCHANGED <<env, mappings, allowed, lastPort, net, tid>>

\* The read timed out: another transmission, or the call fails.
Timeout ==
    /\ waiting /\ waiting' = FALSE
    /\ IF sent < Transmissions THEN UNCHANGED <<sent, test>>
       ELSE sent' = 0 /\ test' = AfterErr
    /\ UNCHANGED <<env, mappings, allowed, lastPort, net, tid, profile>>

(* --- port prediction ----------------------------------------------------- *)

\* Vec::dedup: adjacent repetitions only.
DistinctPorts(s) ==
    LET Add(acc, p) == IF acc # <<>> /\ Last(acc) = p THEN acc ELSE Append(acc, p)
    IN FoldLeft(Add, <<>>, s)

SaturatingSub(a, b) == IF a > b THEN a - b ELSE 0

\* None is 0: a stride of zero is filtered out as well.
PortStride(s) ==
    LET ports == DistinctPorts(s)
        deltas == {SaturatingSub(ports[i + 1], ports[i]) : i \in 1..(Len(ports) - 1)}
    IN IF Len(ports) >= 2 /\ Cardinality(deltas) = 1 THEN CHOOSE d \in deltas : TRUE ELSE 0

AdvancePortStops(base, stride, steps) ==
    IF base + stride * steps > High THEN High ELSE base + stride * steps
AdvancePort(base, stride, steps) ==
    Low + ((SaturatingSub(base, Low) + stride * steps) % (High - Low + 1))

Gcd[a \in Nat, b \in Nat] == IF b = 0 THEN a ELSE Gcd[b, a % b]

PickCoprime(span) ==
    LET coprime == {c \in 2..(span - 1) : Gcd[c, span] = 1}
    IN IF span <= 2 \/ coprime = {} THEN 1 ELSE CHOOSE c \in coprime : \A d \in coprime : c <= d

PredictExternalPorts(samples, window, limit) ==
    LET stride == IF PortStride(samples) = 0 THEN 1 ELSE PortStride(samples)
        base   == Last(DistinctPorts(samples))
        half   == window \div 2
        spread == window - half
        step   == PickCoprime(spread)
        offsets == [i \in 1..half |-> i]
                   \o IF spread > 1
                      THEN [i \in 1..spread |-> half + 1 + (((i - 1) * step) % spread)]
                      ELSE <<>>
        Push(acc, o) == LET port == AdvancePort(base, stride, o)
                        IN IF Len(acc) < limit /\ port \notin ToSet(acc)
                           THEN Append(acc, port) ELSE acc
    IN IF window = 0 \/ limit = 0 THEN <<>> ELSE FoldLeft(Push, <<>>, offsets)
---------------------------------------------------------------------------
Init ==
    /\ env \in [mapping : Kinds, filtering : Kinds, server : Servers,
                family : Families, stride : Strides]
    /\ lastPort \in First
    /\ mappings = <<>> /\ allowed = {} /\ net = {}
    /\ test = "baseline" /\ sent = 0 /\ tid = 0 /\ waiting = FALSE
    /\ profile = [samples |-> <<>>, other |-> Nothing,
                  mapping |-> "Undetermined", filtering |-> "Undetermined"]

Next == Transmit \/ Timeout \/ \E m \in net : Receive(m)

Spec == Init /\ [][Next]_vars
---------------------------------------------------------------------------
Strictness(k) == CASE k = "EndpointIndependent" -> 1 [] k = "AddressDependent" -> 2
                   [] k = "AddressAndPortDependent" -> 3 [] OTHER -> 4

(* A profile never calls the NAT more permissive than it is: silence only   *)
(* makes `discover` stricter, an answer to an earlier request, which may    *)
(* get in once a later request has opened the filter, is not taken for the  *)
(* answer under test, and the filtering tests come before the requests that *)
(* write to the alternate address (discover.rs, the filtering and mapping   *)
(* sections).  A mapping that is reported is the NAT's.                     *)
ProfileIsTrue ==
    /\ Strictness(profile.filtering) >= Strictness(env.filtering)
    /\ profile.mapping \in {"Undetermined", env.mapping}

(* What prediction promises (discover.rs:190-197): the candidates are       *)
(* distinct ports of the range, as many as the window has offsets while the *)
(* range is larger, and when the samples show the allocator's stride, the   *)
(* port it hands out next is among them, past the top of the range too.     *)
PredictionCovers ==
    test = "done" =>
        LET c == PredictExternalPorts(profile.samples, Window, Window)
            spread == (Window - (Window \div 2))
        IN /\ Cardinality(ToSet(c)) = Len(c) /\ ToSet(c) \subseteq Low..High
           /\ (PortStride(profile.samples) <= 1 /\ spread > 1) => Len(c) = Window
           /\ PortStride(profile.samples) = env.stride => NextPort(lastPort) \in ToSet(c)
=============================================================================
