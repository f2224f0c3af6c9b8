-------------------------- MODULE ProviderContent --------------------------
(***************************************************************************)
(* One provider from the inside: what a load fetches, caches, parses and   *)
(* publishes, the health check over the published proxies, and the locks   *)
(* all of them take.                                                       *)
(* (ProxyProvider, ProxyProviderManager in src/engine/proxy_provider.rs;   *)
(* RuleProvider::load in src/engine/rule_provider.rs)                      *)
(*                                                                         *)
(* Locks are parking_lot RwLocks: a reader that comes after a waiting      *)
(* writer waits too.                                                       *)
(***************************************************************************)
EXTENDS Integers, FiniteSets

CONSTANTS Threads,     \* the updater, a reload, callers of the host
          Documents,   \* what the URL may serve
          Good,        \* those that parse into something usable
          MaxCalls,    \* calls in all
          None

ContentAssumption == None \notin Threads

VARIABLES kind,       \* a proxy provider with or without a cache path, or a rule provider
          cached,     \* the cache file: a document, or None
          configs,    \* proxy_configs: the document it was parsed from
          proxies,    \* proxies, or a rule provider's index
          health,     \* health_results: the document whose proxies were probed
          updated,    \* last_update is set
          registered, \* the manager still has this provider
          lock,       \* lock -> [w: writer, r: readers, wait: writers waiting]
          thread,     \* thread -> [at, op, doc]
          calls

vars == <<kind, cached, configs, proxies, health, updated, registered, lock, thread, calls>>
content == <<cached, configs, proxies, health, updated, registered>>

Locks == {"providers", "configs", "proxies", "health"}
Ops == {"update_all", "health_check_all", "reload_provider", "get_all_proxies",
        "get_alive_proxies", "clear"}
Kinds == {"proxy", "uncached proxy", "rule"}
Idle == [at |-> "idle", op |-> None, doc |-> None]

TypeOK ==
  /\ kind \in Kinds
  /\ {cached, configs, proxies, health} \subseteq Documents \cup {None}
  /\ lock \in [Locks -> [w : Threads \cup {None}, r : SUBSET Threads, wait : SUBSET Threads]]

Init ==
  /\ kind \in Kinds
  /\ cached = None /\ configs = None /\ proxies = None /\ health = None
  /\ updated = FALSE /\ registered = TRUE
  /\ lock = [l \in Locks |-> [w |-> None, r |-> {}, wait |-> {}]]
  /\ thread = [t \in Threads |-> Idle]
  /\ calls = 0

----------------------------------------------------------------------------
(* Locks                                                                   *)

MayRead(l) == lock[l].w = None /\ lock[l].wait = {}
MayWrite(t, l) == lock[l].w = None /\ lock[l].r = {} /\ t \in lock[l].wait
Reading(t, l) == [lock EXCEPT ![l].r = @ \cup {t}]
Asking(t, l) == [lock EXCEPT ![l].wait = @ \cup {t}]
Writing(t, l) == [lock EXCEPT ![l].w = t, ![l].wait = @ \ {t}]
Free(t, held) == [l \in Locks |->
                    IF l \notin held THEN lock[l]
                    ELSE [lock[l] EXCEPT !.r = @ \ {t}, !.w = IF @ = t THEN None ELSE @]]

At(t, at) == thread[t].at = at
Go(t, at) == thread' = [thread EXCEPT ![t].at = at]

----------------------------------------------------------------------------
(* The manager                                                             *)

\* get_alive_proxies is called on a provider the caller already holds; clear
\* asks for the write lock; the rest walk the providers under the read lock.
Begin(t, op) ==
  /\ At(t, "idle") /\ calls < MaxCalls
  /\ op \in {"health_check_all", "get_all_proxies", "get_alive_proxies"} => kind # "rule"
  /\ calls' = calls + 1
  /\ thread' = [thread EXCEPT ![t] = [at |-> CASE op = "get_alive_proxies" -> "alive"
                                               [] op = "clear" -> "clear"
                                               [] OTHER -> "providers",
                                      op |-> op, doc |-> None]]
  /\ lock' = IF op = "clear" THEN Asking(t, "providers") ELSE lock
  /\ UNCHANGED <<kind, content>>

\* update_if_needed skips a provider whose interval is not over.
Providers(t) ==
  /\ At(t, "providers") /\ MayRead("providers")
  /\ lock' = Reading(t, "providers")
  /\ \/ registered /\ Go(t, CASE thread[t].op = "health_check_all" -> "check"
                              [] thread[t].op = "get_all_proxies" -> "nodes"
                              [] OTHER -> "fetch")
     \/ (~registered \/ (thread[t].op = "update_all" /\ updated)) /\ Go(t, "leave")
  /\ UNCHANGED <<kind, content, calls>>

Clear(t) == /\ At(t, "clear") /\ MayWrite(t, "providers")
            /\ lock' = Writing(t, "providers")
            /\ registered' = FALSE
            /\ Go(t, "leave")
            /\ UNCHANGED <<kind, cached, configs, proxies, health, updated, calls>>

Leave(t) == /\ At(t, "leave")
            /\ lock' = Free(t, {"providers"})
            /\ thread' = [thread EXCEPT ![t] = Idle]
            /\ UNCHANGED <<kind, content, calls>>

----------------------------------------------------------------------------
(* load                                                                    *)

\* The body is cached as it comes, before anybody has tried to parse it.
Fetched(t, d, keep) == /\ thread' = [thread EXCEPT ![t].doc = d, ![t].at = "parse"]
                       /\ cached' = IF keep THEN d ELSE cached

\* A proxy provider that has a cache file reads that and asks nobody.
FetchProxies(t) ==
  /\ At(t, "fetch") /\ kind # "rule"
  /\ IF cached # None
     THEN Fetched(t, cached, FALSE)
     ELSE \/ \E d \in Documents : Fetched(t, d, kind = "proxy")
          \/ Go(t, "leave") /\ UNCHANGED cached
  /\ UNCHANGED <<kind, configs, proxies, health, updated, registered, lock, calls>>

\* read_cached_or_error
ReadCachedOrError(t) == IF cached # None THEN Fetched(t, cached, FALSE)
                        ELSE Go(t, "leave") /\ UNCHANGED cached

\* A rule provider asks, and falls back on its cache file.
FetchRules(t) ==
  /\ At(t, "fetch") /\ kind = "rule"
  /\ \/ \E d \in Documents : Fetched(t, d, TRUE)
     \/ ReadCachedOrError(t)
  /\ UNCHANGED <<kind, configs, proxies, health, updated, registered, lock, calls>>

\* parse_proxies and create_proxies, which skips what it cannot build.
ParseProxies(t) ==
  /\ At(t, "parse") /\ kind # "rule"
  /\ IF thread[t].doc \in Good THEN Go(t, "configs") /\ lock' = Asking(t, "configs")
                              ELSE Go(t, "leave") /\ UNCHANGED lock
  /\ UNCHANGED <<kind, content, calls>>

\* parse_rules and RuleIndex::compile, neither of which may come out empty;
\* the guard on the index does not outlive the assignment.
ParseRules(t) ==
  /\ At(t, "parse") /\ kind = "rule"
  /\ IF thread[t].doc \in Good THEN Go(t, "index") /\ lock' = Asking(t, "proxies")
                              ELSE Go(t, "leave") /\ UNCHANGED lock
  /\ UNCHANGED <<kind, content, calls>>
WriteIndex(t) ==
  /\ At(t, "index") /\ MayWrite(t, "proxies")
  /\ proxies' = thread[t].doc
  /\ lock' = [lock EXCEPT !["proxies"].wait = @ \ {t}]
  /\ Go(t, "stamp")
  /\ UNCHANGED <<kind, cached, configs, health, updated, registered, calls>>

\* The guard on the configs is kept while the one on the proxies is awaited.
WriteConfigsAndLetGo(t) ==
  /\ At(t, "configs") /\ MayWrite(t, "configs")
  /\ configs' = thread[t].doc
  /\ lock' = [Asking(t, "proxies") EXCEPT !["configs"].wait = @ \ {t}]
  /\ Go(t, "proxies")
  /\ UNCHANGED <<kind, cached, proxies, health, updated, registered, calls>>
WriteConfigs(t) ==
  /\ At(t, "configs") /\ MayWrite(t, "configs")
  /\ configs' = thread[t].doc
  /\ lock' = [Writing(t, "configs") EXCEPT !["proxies"].wait = @ \cup {t}]
  /\ Go(t, "proxies")
  /\ UNCHANGED <<kind, cached, proxies, health, updated, registered, calls>>

WriteProxies(t) ==
  /\ At(t, "proxies") /\ MayWrite(t, "proxies")
  /\ proxies' = thread[t].doc
  /\ lock' = Writing(t, "proxies")
  /\ Go(t, "stamp")
  /\ UNCHANGED <<kind, cached, configs, health, updated, registered, calls>>

Stamp(t) == /\ At(t, "stamp")
            /\ updated' = TRUE
            /\ lock' = Free(t, {"configs", "proxies"})
            /\ Go(t, "leave")
            /\ UNCHANGED <<kind, cached, configs, proxies, health, registered, calls>>

----------------------------------------------------------------------------
(* health_check and the readers                                            *)

\* Every proxy is probed, up to its timeout, under the read lock.
Check(t) == /\ At(t, "check") /\ MayRead("proxies")
            /\ lock' = Reading(t, "proxies")
            /\ thread' = [thread EXCEPT ![t].at = "probe", ![t].doc = proxies]
            /\ UNCHANGED <<kind, content, calls>>
Probe(t) == /\ At(t, "probe")
            /\ lock' = Asking(t, "health")
            /\ Go(t, "results")
            /\ UNCHANGED <<kind, content, calls>>
Results(t) == /\ At(t, "results") /\ MayWrite(t, "health")
              /\ health' = thread[t].doc
              /\ lock' = [Free(t, {"proxies"}) EXCEPT !["health"].wait = @ \ {t}]
              /\ Go(t, "leave")
              /\ UNCHANGED <<kind, cached, configs, proxies, updated, registered, calls>>

Nodes(t) == /\ At(t, "nodes") /\ MayRead("proxies")
            /\ Go(t, "leave")
            /\ UNCHANGED <<kind, content, lock, calls>>

\* get_alive_proxies: the proxies first, then the health results.
AliveHealthFirst(t) ==
  /\ \/ /\ At(t, "alive") /\ MayRead("health")
        /\ lock' = Reading(t, "health") /\ Go(t, "filter")
     \/ /\ At(t, "filter") /\ MayRead("proxies")
        /\ lock' = Free(t, {"health"}) /\ Go(t, "leave")
  /\ UNCHANGED <<kind, content, calls>>
Alive(t) ==
  /\ \/ /\ At(t, "alive") /\ MayRead("proxies")
        /\ lock' = Reading(t, "proxies") /\ Go(t, "filter")
     \/ /\ At(t, "filter") /\ MayRead("health")
        /\ lock' = Free(t, {"proxies"}) /\ Go(t, "leave")
  /\ UNCHANGED <<kind, content, calls>>

----------------------------------------------------------------------------
Work(t) == \/ Providers(t) \/ Clear(t) \/ Leave(t) \/ FetchProxies(t) \/ FetchRules(t)
           \/ ParseProxies(t) \/ ParseRules(t) \/ WriteIndex(t) \/ WriteConfigs(t)
           \/ WriteProxies(t) \/ Stamp(t) \/ Check(t) \/ Probe(t) \/ Results(t) \/ Nodes(t)
           \/ Alive(t)
Next == \E t \in Threads : Work(t) \/ \E op \in Ops : Begin(t, op)

Spec == Init /\ [][Next]_vars

----------------------------------------------------------------------------
(* Properties                                                              *)

\* Loads may race (the updater, reload_provider): whoever holds neither guard
\* finds configs and proxies of one and the same document (load).
PairIsOne == (kind # "rule" /\ lock["configs"].w = None /\ lock["proxies"].w = None)
               => configs = proxies

\* Everyone waiting on everyone: while a call is open some open call can go
\* on, so that each of them returns - a load that waits for a health check
\* with the configs locked, a reader behind a waiting writer, clear behind an
\* update that keeps the provider map through its downloads.
NoStandstill == (\E t \in Threads : ~At(t, "idle"))
                  => \E t \in Threads : ~At(t, "idle") /\ ENABLED Work(t)

\* "A failed http download falls back on the local cache, and only without a
\* cache is it an error" (wiki/Rules.md:136): what is cached can be loaded.
CacheIsUsable == kind = "rule" /\ cached # None => cached \in Good
=============================================================================
