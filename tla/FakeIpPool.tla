----------------------------- MODULE FakeIpPool -----------------------------
(***************************************************************************)
(* The client-facing DNS responder of the userspace stack and its pool of  *)
(* fake addresses (netstack/solidtcp/dns.rs), with the two places that     *)
(* turn a fake address back into a name: a SYN and a UDP datagram          *)
(* (netstack/solidtcp/stack.rs).                                           *)
(*                                                                         *)
(* The pool is two concurrent maps that no lock ties together.  Three      *)
(* threads use them: the packet thread answers queries and dials, the      *)
(* cleanup thread of the stack drops expired entries in two passes, and    *)
(* an API thread clears the pool.  Every access to a map is a step.        *)
(***************************************************************************)
EXTENDS Naturals, FiniteSets

CONSTANTS Names,      \* the names clients ask for
          Filtered,   \* those that is_filtered sends to a real resolver
          Hosted,     \* those with a static IPv4 answer in the profile
          PolicyBound,\* those a nameserver-policy entry names
          Slots,      \* usable addresses: pool_size - 3
          Ttl,        \* life of an entry, in clock ticks
          MaxTime,    \* bound of the clock
          MaxClear    \* bound of the explicit pool resets

VARIABLES now,       \* Instant::now()
          fwd,       \* domain_to_ip: name -> [ip, expires], or NoEntry
          back,      \* ip_to_domain: address -> name, or None
          next,      \* next_offset modulo the slots
          packet,    \* the packet thread: [pc, name, ip]
          reaper,    \* the cleanup thread: [todo, half]
          clearing,  \* the API thread: the map it clears next
          clears,    \* resets so far
          handed,    \* history: the name each address was last answered for
          raced      \* history: a removal took out another name's mapping

vars == <<now, fwd, back, next, packet, reaper, clearing, clears, handed, raced>>

None == "none"
NoEntry == [ip |-> 0, expires |-> 0]
Addresses == 1 .. Slots
PoolAssumption == Slots \in Nat \ {0} /\ Ttl \in Nat /\ None \notin Names
Idle == [pc |-> "idle", name |-> None, ip |-> 0]
HasEntry(n) == fwd[n] # NoEntry
Expired(n) == HasEntry(n) /\ now >= fwd[n].expires

Init ==
    /\ now = 0 /\ next = 0 /\ clears = 0
    /\ fwd = [n \in Names |-> NoEntry]
    /\ back = [a \in Addresses |-> None]
    /\ packet = Idle
    /\ reaper = [todo |-> {}, half |-> 0]
    /\ clearing = "no"
    /\ handed = [a \in Addresses |-> None]
    /\ raced = FALSE

-----------------------------------------------------------------------------
(* Time and the client.                                                     *)

Tick ==
    /\ now < MaxTime
    /\ now' = now + 1
    /\ UNCHANGED <<fwd, back, next, packet, reaper, clearing, clears, handed, raced>>

\* What the resolvers make of a name that is resolved for real: the engine's
\* verdict is final for a name under nameserver-policy, else the system
\* resolver (or the physical servers while the tunnel is up) has the last word.
Engines == {"absent", "found", "empty", "failed"}

ResolveReal(n, engine, system) ==
    IF engine = "found" THEN "addresses"
    ELSE IF n \in PolicyBound THEN "servfail"
    ELSE CASE system = "found"  -> "addresses"
           [] system = "empty"  -> "nxdomain"
           [] system = "failed" -> "servfail"

\* handle_query up to the pool: what an A query for n is answered with.
Verdict(n, engine, system) ==
    IF n \in Hosted THEN "addresses"
    ELSE IF n \in Filtered THEN ResolveReal(n, engine, system)
    ELSE "fake"

\* A query the pool does not answer: no mapping is touched.
AnswerReal(n) ==
    /\ packet.pc = "idle"
    /\ \E e \in Engines, s \in Engines \ {"absent"} :
          /\ Verdict(n, e, s) # "fake"
          /\ packet' = [pc |-> Verdict(n, e, s), name |-> n, ip |-> 0]
    /\ UNCHANGED <<now, fwd, back, next, reaper, clearing, clears, handed, raced>>

\* allocate, the live entry: its address is the answer, with no look at the
\* reverse map.
AllocateHit(n) ==
    /\ packet.pc = "idle"
    /\ Verdict(n, "absent", "failed") = "fake"
    /\ HasEntry(n) /\ ~Expired(n)
    /\ packet' = [pc |-> "answer", name |-> n, ip |-> fwd[n].ip]
    /\ UNCHANGED <<now, fwd, back, next, reaper, clearing, clears, handed, raced>>

Held == {n \in Names : HasEntry(n)}

\* allocate, no live entry: when the map is full the packet thread runs a
\* whole cleanup of its own, and gives up when that freed nothing.
AllocateMiss(n) ==
    /\ packet.pc = "idle"
    /\ Verdict(n, "absent", "failed") = "fake"
    /\ ~HasEntry(n) \/ Expired(n)
    /\ LET full == Cardinality(Held) >= Slots
           dead == IF full THEN {m \in Names : Expired(m)} ELSE {}
       IN  /\ fwd' = [m \in Names |-> IF m \in dead THEN NoEntry ELSE fwd[m]]
           /\ back' = [a \in Addresses |->
                          IF \E m \in dead : fwd[m].ip = a THEN None ELSE back[a]]
           /\ raced' = (raced \/ \E m \in dead : back[fwd[m].ip] \notin {m, None})
           /\ packet' = IF Cardinality(Held \ dead) >= Slots
                          THEN [pc |-> "exhausted", name |-> n, ip |-> 0]
                          ELSE [pc |-> "evict", name |-> n, ip |-> 1 + next]
           /\ next' = IF Cardinality(Held \ dead) >= Slots THEN next ELSE (next + 1) % Slots
    /\ UNCHANGED <<now, reaper, clearing, clears, handed>>

\* Mutation: allocate leaves the forward entry of the evicted name in place.
EvictBackOnly ==
    /\ packet.pc = "evict"
    /\ back' = [back EXCEPT ![packet.ip] = None]
    /\ packet' = [packet EXCEPT !.pc = "insert_fwd"]
    /\ UNCHANGED <<now, fwd, next, reaper, clearing, clears, handed, raced>>

\* The slot's former name, as far as the reverse map knows it, loses its
\* entry: whatever address that entry points at by now.
Evict ==
    /\ packet.pc = "evict"
    /\ back' = [back EXCEPT ![packet.ip] = None]
    /\ LET old == back[packet.ip]
       IN  fwd' = IF old = None THEN fwd ELSE [fwd EXCEPT ![old] = NoEntry]
    /\ packet' = [packet EXCEPT !.pc = "insert_fwd"]
    /\ UNCHANGED <<now, next, reaper, clearing, clears, handed, raced>>

InsertForward ==
    /\ packet.pc = "insert_fwd"
    /\ fwd' = [fwd EXCEPT ![packet.name] = [ip |-> packet.ip, expires |-> now + Ttl]]
    /\ packet' = [packet EXCEPT !.pc = "insert_back"]
    /\ UNCHANGED <<now, back, next, reaper, clearing, clears, handed, raced>>

InsertBack ==
    /\ packet.pc = "insert_back"
    /\ back' = [back EXCEPT ![packet.ip] = packet.name]
    /\ packet' = [packet EXCEPT !.pc = "answer"]
    /\ UNCHANGED <<now, fwd, next, reaper, clearing, clears, handed, raced>>

\* The packet is done with: handle_dns_query has sent its answer (an error is
\* only logged), or the connection has been handed on.
Answer ==
    /\ packet.pc \notin {"idle", "evict", "insert_fwd", "insert_back"}
    /\ handed' = IF packet.pc # "answer" THEN handed ELSE [handed EXCEPT ![packet.ip] = packet.name]
    /\ packet' = Idle
    /\ UNCHANGED <<now, fwd, back, next, reaper, clearing, clears, raced>>

\* A client uses an address it was given.  An address with no mapping is
\* reset (TCP) or dropped (UDP), else the connection is made to the name.
Dial(a) ==
    /\ packet.pc = "idle"
    /\ handed[a] # None
    /\ packet' = [pc |-> "dial", name |-> back[a], ip |-> a]
    /\ UNCHANGED <<now, fwd, back, next, reaper, clearing, clears, handed, raced>>

-----------------------------------------------------------------------------
(* cleanup on the thread of the stack: collect, then remove pair by pair.  *)

Collect ==
    /\ reaper = [todo |-> {}, half |-> 0]
    /\ \E n \in Names : Expired(n)
    /\ reaper' = [todo |-> {<<n, fwd[n].ip>> : n \in {m \in Names : Expired(m)}}, half |-> 0]
    /\ UNCHANGED <<now, fwd, back, next, packet, clearing, clears, handed, raced>>

ReapForward ==
    /\ reaper.half = 0
    /\ \E p \in reaper.todo :
          /\ fwd' = [fwd EXCEPT ![p[1]] = NoEntry]
          /\ raced' = (raced \/ (HasEntry(p[1]) /\ ~Expired(p[1])))
          /\ reaper' = [todo |-> reaper.todo \ {p}, half |-> p[2]]
    /\ UNCHANGED <<now, back, next, packet, clearing, clears, handed>>

\* The address may have been handed to another name since the collection.
ReapBack ==
    /\ reaper.half # 0
    /\ raced' = (raced \/ \E n \in Names : fwd[n].ip = reaper.half /\ HasEntry(n))
    /\ back' = [back EXCEPT ![reaper.half] = None]
    /\ reaper' = [reaper EXCEPT !.half = 0]
    /\ UNCHANGED <<now, fwd, next, packet, clearing, clears, handed>>

-----------------------------------------------------------------------------
(* clear(), called from the API: one map after the other.  The counter is  *)
(* stored as 3, so the first address after a reset is the fourth slot.     *)

ClearForward ==
    /\ clearing = "no" /\ clears < MaxClear
    /\ clears' = clears + 1
    /\ fwd' = [n \in Names |-> NoEntry]
    /\ clearing' = "back"
    /\ UNCHANGED <<now, back, next, packet, reaper, handed, raced>>

ClearBack ==
    /\ clearing = "back"
    /\ raced' = (raced \/ \E n \in Names : HasEntry(n) /\ back[fwd[n].ip] # None)
    /\ back' = [a \in Addresses |-> None]
    /\ clearing' = "offset"
    /\ UNCHANGED <<now, fwd, next, packet, reaper, clears, handed>>

ClearOffset ==
    /\ clearing = "offset"
    /\ next' = 3 % Slots
    /\ clearing' = "no"
    /\ UNCHANGED <<now, fwd, back, packet, reaper, clears, handed, raced>>

Next ==
    \/ Tick
    \/ \E n \in Names : AnswerReal(n) \/ AllocateHit(n) \/ AllocateMiss(n)
    \/ Evict \/ InsertForward \/ InsertBack \/ Answer
    \/ \E a \in Addresses : Dial(a)
    \/ Collect \/ ReapForward \/ ReapBack
    \/ ClearForward \/ ClearBack \/ ClearOffset

Spec == Init /\ [][Next]_vars

-----------------------------------------------------------------------------
(* Properties.                                                             *)

(* A connection to an address goes to the name the address was last        *)
(* answered for, or nowhere: never to another site.  It holds as long as   *)
(* no removal of the cleanup thread or of a reset overlapped a new         *)
(* allocation, whatever the order of queries, expiries, re-allocations and *)
(* wrap-arounds of the pool (dns.rs:139, the eviction through the reverse  *)
(* map, which may name an entry that has moved to another address).        *)
AnswersAreOwn == (packet.pc = "dial" /\ ~raced) => packet.name \in {handed[packet.ip], None}

(* dns.rs:264: with the fake pool "every connection stays routable by      *)
(* name".  The same without the exception: the cleanup thread removes a    *)
(* mapping by address after it looked at the entry, so it can take out the *)
(* mapping of a name that got the address meanwhile; the next allocation   *)
(* of that address then leaves two names on it, and the client of one is   *)
(* connected to the other.                                                 *)
RoutableByName == packet.pc = "dial" => packet.name \in {handed[packet.ip], None}

=============================================================================
