--------------------------- MODULE DnsResolution ---------------------------
(***************************************************************************)
(* How a name is resolved: the engine's own resolver, built lazily and     *)
(* replaced on reload (src/dns/engine_resolver.rs, upstream.rs,            *)
(* pattern.rs), the servers captured before a tunnel was raised            *)
(* (src/dns/trusted.rs) and the OS resolver, as a dial                     *)
(* (src/common/socket.rs) and a client's intercepted query                 *)
(* (src/netstack/solidtcp/dns.rs) use them while the configuration is      *)
(* replaced and the tunnel goes up and down.                               *)
(*                                                                         *)
(* One name is looked up.  Answers are abstracted to what they are worth:  *)
(* good, bogon (an address the fallback filter distrusts), none (NODATA,   *)
(* NXDOMAIN) or fail.  RecurseX, which does the exchanges, is external.    *)
(***************************************************************************)
EXTENDS Naturals, Sequences, FiniteSets, SequencesExt

CONSTANTS Keys,        \* nameserver-policy keys, as sequences of labels
          Plans,       \* settings a profile may carry
          Answers,     \* what each kind of server answers
          MaxConfigs,  \* bound on configure calls
          MaxRetries   \* bound on elapsed BUILD_RETRY windows

VARIABLES plan,        \* ENGINE_RESOLVER's plan by generation
          engine,      \* ENGINE_RESOLVER: a generation, 0 for None
          configs,     \* generations configured so far
          live,        \* EngineResolver.live by generation
          retries,     \* BUILD_RETRY windows that have elapsed
          ans,         \* what the servers answer
          reach,       \* whether names of upstreams can be resolved now
          worker,      \* the threads inside EngineResolver::resolve_ips
          caller,      \* the dial and the client query that wait for them
          trusted,     \* TRUSTED_SERVERS and ANSWER_CACHE
          captured     \* whether the tunnel's DNS captures the OS resolver

vars == <<plan, engine, configs, live, retries, ans, reach, worker, caller, trusted, captured>>

\* What an answer is worth.
Worth == {"good", "bogon", "none", "fail"}

DnsAssumption ==
  /\ MaxConfigs \in Nat \ {0} /\ MaxRetries \in Nat
  /\ Answers \subseteq [primary : Worth, v6 : Worth, fallback : Worth, system : BOOLEAN, trusted : Worth]

Families == {"v4", "v6"}
Workers == Families \cup {"client"}
Callers == {"dial", "client"}
Gens == 1 .. MaxConfigs

\* The workers a caller starts: resolve asks for both families at once,
\* resolve_ips for one.
Started(c) == IF c = "dial" THEN Families ELSE {"client"}

----------------------------------------------------------------------------
(* Names                                                                   *)

Host == <<"entry", "node">>

\* normalize_suffix: "+.", "*." and "." come off.
NormalizeSuffix(key) == IF key # << >> /\ Head(key) \in {"+", "*", ""} THEN Tail(key) ELSE key
\* suffix_matches: label-boundary suffix; the empty suffix matches everything.
SuffixMatches(host, suffix) == IsSuffix(suffix, host)
\* uses_policy compares with the key as the profile wrote it.
UsesPolicy(g) == g # 0 /\ \E key \in plan[g].policy : SuffixMatches(Host, key)

----------------------------------------------------------------------------
(* Building a resolver                                                     *)

\* render_set: an upstream named by a host needs the bootstrap to answer.
Renders(upstreams) == {u \in upstreams : u = "literal" \/ reach}
\* build_engine: a plan with no usable default and no usable policy group
\* does not build; a fallback set that did not render is left out.
Builds(p) == Renders(p.default) # {} \/ (p.policy # {} /\ Renders(p.policyServers) # {})
BuildFallback(p) == Renders(p.fallback) # {}
\* from_settings: something must parse.
Usable(p) == p.default # {} \/ p.policy # {}

NotBuilt == [primary |-> FALSE, fallback |-> FALSE, threads |-> 0, lock |-> "free",
             failedAt |-> 0, failed |-> FALSE, dropped |-> FALSE]
\* Live::drop shuts down what the resolver still owns.
Shutdown(l) == [l EXCEPT !.primary = FALSE, !.fallback = FALSE, !.dropped = TRUE,
                         !.threads = @ - ((IF l.primary THEN 1 ELSE 0) + (IF l.fallback THEN 1 ELSE 0))]
\* Dropping the last Arc<EngineResolver>: the static's and the callers'.
ReleaseUnused(l, current, held) ==
  [g \in Gens |-> IF g \in held \cup {current} \/ l[g].dropped THEN l[g] ELSE Shutdown(l[g])]
Holders(cs) == {cs[c].engine : c \in {c \in Callers : cs[c].pc = "lookup"}}

\* SuspectPolicy::suspect: private addresses count when a fallback is
\* configured; a country, network or domain filter counts by itself.
Suspect(p, a) == p.filter \/ (a = "bogon" /\ p.fallback # {})

Idle == [pc |-> "idle", engine |-> 0, result |-> "none", from |-> "none"]

Init ==
  /\ \E p \in Plans : plan = [g \in Gens |-> p]
  /\ Usable(plan[1])
  /\ engine = 1 /\ configs = 1
  /\ live = [g \in Gens |-> NotBuilt]
  /\ retries = 0
  /\ ans \in Answers
  /\ reach \in BOOLEAN
  /\ worker = [w \in Workers |-> [pc |-> "idle", result |-> "none"]]
  /\ caller = [c \in Callers |-> Idle]
  /\ trusted = [servers |-> 0, cache |-> 0]
  /\ captured = FALSE

----------------------------------------------------------------------------
(* configure                                                               *)

\* from_settings, and the static replaced by a resolver that is not built yet.
Install(p) == /\ configs < MaxConfigs
              /\ Usable(p)
              /\ configs' = configs + 1
              /\ engine' = configs'
              /\ plan' = [plan EXCEPT ![configs'] = p]
              /\ UNCHANGED <<retries, ans, reach, worker, caller, trusted, captured>>
Later == {g \in Gens : g > configs'}
ConfigureShutsDown ==
  /\ \E p \in Plans : Install(p)
  /\ live' = [g \in Gens |-> IF g = engine THEN Shutdown(live[g]) ELSE live[g]]
\* The static is replaced; the old resolver goes when its last user is done.
Configure ==
  /\ \E p \in Plans : Install(p)
  /\ live' = ReleaseUnused(live, engine', Holders(caller) \cup Later)
\* A profile with no usable server turns the engine resolver off.
ConfigureNone ==
  /\ engine # 0
  /\ engine' = 0
  /\ UNCHANGED <<plan, configs, retries, ans, reach, worker, caller, trusted, captured>>
  /\ live' = ReleaseUnused(live, 0, Holders(caller) \cup Later)

----------------------------------------------------------------------------
(* resolve_ips                                                             *)

World == UNCHANGED <<plan, engine, configs, retries, ans, reach, trusted, captured>>
OwnerOf(w) == IF w = "client" THEN "client" ELSE "dial"
Eng(w) == caller[OwnerOf(w)].engine
To(w, pc) == worker' = [worker EXCEPT ![w].pc = pc]
Return(w, r) == worker' = [worker EXCEPT ![w] = [pc |-> "done", result |-> r]]

\* live(): the read lock is tried first.
ReadLive(w) ==
  /\ worker[w].pc = "read"
  /\ live[Eng(w)].lock = "free"
  /\ To(w, IF live[Eng(w)].primary THEN "query" ELSE "write")
  /\ UNCHANGED <<live, caller>> /\ World
\* Under the write lock another thread's work is looked for again, and a
\* failed attempt is not repeated before BUILD_RETRY has passed.
WriteLiveAnyway(w) ==
  /\ worker[w].pc = "write"
  /\ live[Eng(w)].lock = "free"
  /\ To(w, "build") /\ live' = [live EXCEPT ![Eng(w)].lock = w]
  /\ UNCHANGED caller /\ World
WriteLive(w) ==
  /\ worker[w].pc = "write"
  /\ live[Eng(w)].lock = "free"
  /\ LET l == live[Eng(w)]
     IN CASE l.primary -> To(w, "query") /\ UNCHANGED live
          [] ~l.primary /\ l.failed /\ l.failedAt = retries -> Return(w, "fail") /\ UNCHANGED live
          [] OTHER -> To(w, "build") /\ live' = [live EXCEPT ![Eng(w)].lock = w]
  /\ UNCHANGED caller /\ World
BuildKeepsLock(w) ==
  /\ worker[w].pc = "build"
  /\ IF Builds(plan[Eng(w)])
     THEN /\ live' = [live EXCEPT ![Eng(w)].primary = TRUE, ![Eng(w)].threads = 1, ![Eng(w)].lock = "free"]
          /\ To(w, "query")
     ELSE Return(w, "fail") /\ UNCHANGED live
  /\ UNCHANGED caller /\ World
Build(w) ==
  /\ worker[w].pc = "build"
  /\ LET g == Eng(w)
         p == plan[g]
     IN IF Builds(p)
        THEN /\ live' = [live EXCEPT ![g].primary = TRUE, ![g].fallback = BuildFallback(p),
                                     ![g].threads = @ + 1 + (IF BuildFallback(p) THEN 1 ELSE 0),
                                     ![g].lock = "free"]
             /\ To(w, "query")
        ELSE /\ live' = [live EXCEPT ![g].failed = TRUE, ![g].failedAt = retries, ![g].lock = "free"]
             /\ Return(w, "fail")
  /\ UNCHANGED caller /\ World
\* query: NODATA and NXDOMAIN are answers without addresses.
Query(w) ==
  /\ worker[w].pc = "query"
  /\ LET a == IF w = "v6" THEN ans.v6 ELSE ans.primary
     IN CASE a \in {"none", "fail"} -> Return(w, "fail")
          [] a \in {"good", "bogon"} /\ Suspect(plan[Eng(w)], a) /\ live[Eng(w)].fallback -> To(w, "fallback")
          [] OTHER -> Return(w, a)
  /\ UNCHANGED <<live, caller>> /\ World
\* A fallback that fails or finds nothing leaves the suspect answer.
QueryFallback(w) ==
  /\ worker[w].pc = "fallback"
  /\ Return(w, IF ans.fallback = "good" THEN "good"
               ELSE IF w = "v6" THEN ans.v6 ELSE ans.primary)
  /\ UNCHANGED <<live, caller>> /\ World
ResolveIps(w) == ReadLive(w) \/ WriteLive(w) \/ Build(w) \/ Query(w) \/ QueryFallback(w)

----------------------------------------------------------------------------
(* The callers: connect_host and resolve_real                              *)

SetCaller(c, r) == caller' = [caller EXCEPT ![c] = r]
Outcome(c, r, from) == SetCaller(c, [caller[c] EXCEPT !.pc = "done", !.result = r, !.from = from])

\* handle_query: a static host entry of the wanted family answers; then a
\* name to be resolved for real, a fake address, an empty answer for a family
\* the pool has not, or the query is forwarded.
Queries == [type : {"A", "AAAA", "other"}, hosts : SUBSET {"A", "AAAA"}, real : BOOLEAN, ipv6 : BOOLEAN]
HandleQuery(q) ==
  IF q.type \in q.hosts THEN "hosts"
  ELSE IF q.type = "other" THEN "forward"
  ELSE IF q.type = "AAAA" /\ ~q.ipv6 THEN "empty"
  ELSE IF q.real THEN "real"
  ELSE IF q.type = "A" THEN "fake" ELSE "empty"
\* A query that the responder settles by itself never reaches a resolver.
Settle == /\ caller["client"].pc = "idle"
          /\ \E q \in Queries : HandleQuery(q) # "real" /\ Outcome("client", HandleQuery(q), "responder")
          /\ UNCHANGED <<live, worker>> /\ World
Begin(c) ==
  /\ caller[c].pc = "idle"
  /\ c = "client" => \E q \in Queries : HandleQuery(q) = "real"
  /\ IF engine = 0
     THEN SetCaller(c, [caller[c] EXCEPT !.pc = "system"]) /\ UNCHANGED worker
     ELSE /\ SetCaller(c, [caller[c] EXCEPT !.pc = "lookup", !.engine = engine])
          /\ worker' = [w \in Workers |-> IF w \in Started(c) THEN [pc |-> "read", result |-> "none"]
                                         ELSE worker[w]]
  /\ UNCHANGED live /\ World
\* Both families are joined; the resolver's Arc is given back.
Join(c) ==
  /\ caller[c].pc = "lookup"
  /\ \A w \in Started(c) : worker[w].pc = "done"
  /\ LET found == {worker[w].result : w \in Started(c)} \ {"fail"}
     IN /\ SetCaller(c, IF found # {}
                        THEN [pc |-> "done", engine |-> 0, result |-> CHOOSE r \in found : TRUE,
                              from |-> "engine"]
                        ELSE [caller[c] EXCEPT !.pc = "policy", !.engine = 0])
        /\ live' = ReleaseUnused(live, engine, Holders(caller') \cup {g \in Gens : g > configs})
  /\ worker' = [w \in Workers |-> IF w \in Started(c) THEN [pc |-> "idle", result |-> "none"] ELSE worker[w]]
  /\ World
\* domain_uses_policy asks the resolver that is configured now.
PolicyNever(c) ==
  /\ caller[c].pc = "policy"
  /\ SetCaller(c, [caller[c] EXCEPT !.pc = "system"])
  /\ UNCHANGED <<live, worker>> /\ World
CheckPolicy(c) ==
  /\ caller[c].pc = "policy"
  /\ IF UsesPolicy(engine) THEN Outcome(c, "fail", "engine")
     ELSE SetCaller(c, [caller[c] EXCEPT !.pc = "system"])
  /\ UNCHANGED <<live, worker>> /\ World

\* resolve_system, system_lookup: the captured servers while they are armed,
\* the OS resolver otherwise; the OS answers with a fake address when the
\* tunnel captures it.
AskOs(c) ==
  /\ caller[c].pc = "system" /\ trusted.servers = 0
  /\ LET who == IF captured THEN "tunnel" ELSE "os"
     IN Outcome(c, IF ans.system \/ captured THEN "good" ELSE "fail", who)
  /\ UNCHANGED <<live, worker>> /\ World
AskTrusted(c) ==
  /\ caller[c].pc = "system" /\ trusted.servers # 0
  /\ IF trusted.cache # 0 THEN Outcome(c, "good", "trusted")
     ELSE SetCaller(c, [caller[c] EXCEPT !.pc = "exchange"])
  /\ UNCHANGED <<live, worker>> /\ World
\* resolve_uncached and exchange: each of at most MAX_ATTEMPTS servers once;
\* the list is read again, an answer is cached.
Exchange(c) ==
  /\ caller[c].pc = "exchange"
  /\ IF trusted.servers = 0 \/ ans.trusted = "fail"
     THEN Outcome(c, "fail", "trusted") /\ UNCHANGED trusted
     ELSE /\ Outcome(c, ans.trusted, "trusted")
          /\ trusted' = [trusted EXCEPT !.cache = IF ans.trusted = "good" THEN trusted.servers ELSE @]
  /\ UNCHANGED <<plan, engine, configs, live, retries, ans, reach, worker, captured>>
\* bounded_lookup: the dial's own wait for the system resolver is bounded;
\* the thread's later answer is dropped.
GiveUp(c) ==
  /\ c = "dial" /\ caller[c].pc \in {"system", "exchange"}
  /\ Outcome(c, "fail", "timeout")
  /\ UNCHANGED <<live, worker>> /\ World

----------------------------------------------------------------------------
(* The tunnel and the rest of the world                                    *)

Threads == UNCHANGED <<plan, engine, configs, live, ans, worker, caller>>
\* set_servers: called before the tunnel is raised, and with nothing before
\* its capture is undone; either way the cached answers go.
SetServers(found) == trusted' = [servers |-> IF found THEN 1 ELSE 0, cache |-> 0]
Arm == /\ ~captured
       /\ \E found \in BOOLEAN : SetServers(found)
       /\ captured' = TRUE
       /\ UNCHANGED <<retries, reach>> /\ Threads
Disarm == /\ captured /\ trusted.servers # 0
          /\ SetServers(FALSE)
          /\ UNCHANGED <<retries, reach, captured>> /\ Threads
Uncapture == /\ captured /\ trusted.servers = 0
             /\ captured' = FALSE
             /\ UNCHANGED <<retries, reach, trusted>> /\ Threads
Elapse == /\ retries < MaxRetries
          /\ \E g \in Gens : live[g].failed
          /\ retries' = retries + 1
          /\ UNCHANGED <<reach, trusted, captured>> /\ Threads
Network == /\ ~reach /\ reach' = TRUE
           /\ UNCHANGED <<retries, trusted, captured>> /\ Threads

Proceed(c) == Join(c) \/ CheckPolicy(c) \/ AskOs(c) \/ AskTrusted(c) \/ Exchange(c)
Call(c) == Begin(c) \/ Proceed(c) \/ GiveUp(c)
Next == \/ \E w \in Workers : ResolveIps(w)
        \/ \E c \in Callers : Call(c)
        \/ Settle \/ Configure \/ ConfigureNone \/ Arm \/ Disarm \/ Uncapture \/ Elapse \/ Network

\* Every exchange and every build is bounded by its own budget.
Spec == /\ Init /\ [][Next]_vars
        /\ \A w \in Workers : WF_vars(ResolveIps(w))
        /\ \A c \in Callers : WF_vars(Proceed(c))

----------------------------------------------------------------------------
(* Properties                                                              *)

\* A resolver that threads still ask has not been shut down by a reload, and
\* what runs in the background is what the resolvers in use own: two threads
\* that find nothing built do not build twice, and nothing is left running
\* when the last user of a replaced resolver is done.
ResolversAreOwned ==
  /\ \A w \in Workers : worker[w].pc \in {"query", "fallback"} =>
        live[Eng(w)].primary /\ (worker[w].pc = "fallback" => live[Eng(w)].fallback)
  /\ \A g \in Gens : /\ live[g].threads = (IF live[g].primary THEN 1 ELSE 0) + (IF live[g].fallback THEN 1 ELSE 0)
                     /\ live[g].threads > 0 => g = engine \/ g \in Holders(caller)

\* A name that the profile gives to a nameserver-policy, in any of the
\* spellings that mean "this name and everything under it", is never put to
\* the system's servers after the engine's resolver was asked.
PolicyStep ==
  \A c \in Callers :
    caller[c].pc = "policy" /\ caller'[c].pc = "system" /\ engine # 0
      => ~\E key \in plan[engine].policy : SuffixMatches(Host, NormalizeSuffix(key))
PolicyHasTheLastWord == [][PolicyStep]_vars

\* A lookup ends, though its threads wait for one another's build and the
\* resolver may be replaced under them.
LookupEnds == \A c \in Callers : (caller[c].pc # "idle") ~> (caller[c].pc = "done")

Owed == \E c \in Callers : caller[c].pc \notin {"idle", "done"}
============================================================================
