---------------------------- MODULE RuleRouting ----------------------------
(***************************************************************************)
(* The router: one connection being routed while the configuration is      *)
(* reloaded and rule providers are refreshed.  (src/engine/routing.rs,     *)
(* src/engine/rule_provider.rs)                                            *)
(*                                                                         *)
(* A rule keeps its kind, its nesting, its no-resolve flag and whether its *)
(* payload covers the request at hand; payloads themselves are left out.   *)
(* The leaf kinds are: name (DOMAIN, DOMAIN-SUFFIX, -KEYWORD, -REGEX),     *)
(* addr (IP-CIDR, GEOIP), other (ports, source, process, inbound, network),*)
(* set (RULE-SET, GEOSITE) and match.                                      *)
(***************************************************************************)
EXTENDS Naturals, Sequences, FiniteSets, FiniteSetsExt, SequencesExt

CONSTANTS Rules,       \* the rules lists are made of
          NewRules,    \* the rules of the configuration that is loaded later
          MaxRules,    \* length of a rule list
          MaxFetches   \* bound on background refreshes

VARIABLES conf,        \* the Config in force: mode, rules, outbounds, providers
          runtimeMode, \* RUNTIME_PROXY_MODE
          request,     \* the connection being routed
          rules, defaults,   \* Router.rules and Router.defaults, each behind its lock
          providers,   \* RuleProviderManager.providers: name -> [config, index]
          cache,       \* DNS_CACHE for the request's name
          lookups,     \* lookups made for this request
          d,           \* the routing thread
          r,           \* the reloading thread
          u,           \* the provider updater's thread
          fetches

vars == <<conf, runtimeMode, request, rules, defaults, providers, cache, lookups, d, r, u, fetches>>

----------------------------------------------------------------------------
(* Matching                                                                *)

\* RuleIndex::compile and load: entries of a provider by what they match; a
\* load fails when nothing usable was found, or nothing could be fetched and
\* there is no cached copy.
Contents == [name : BOOLEAN, addr : BOOLEAN]
Usable(c) == c.name \/ c.addr       \* matchable_count

\* RuleIndex::matches
IndexMatches(ix, ctx, no_resolve) ==
  \/ ix.name /\ request.name
  \/ ix.addr /\ (ctx.ip \/ (~no_resolve /\ ctx.resolved))

\* RuleProviderManager::matches, carries_dst_ip_entries
ProviderMatches(n, ctx, no_resolve) ==
  n \in DOMAIN providers /\ IndexMatches(providers[n].index, ctx, no_resolve)
CarriesDstIpEntries(n) == n \in DOMAIN providers /\ providers[n].index.addr

\* matches_rule_with; ctx says whether an address is given and whether one
\* was resolved.
RECURSIVE MatchesRule(_, _)
MatchesRule(rule, ctx) ==
  CASE rule.type = "name" -> request.name /\ rule.hit
    [] rule.type = "addr" -> rule.hit /\ (ctx.ip \/ (~rule.no_resolve /\ ctx.resolved))
    [] rule.type = "other" -> rule.hit
    [] rule.type = "set" -> ProviderMatches(rule.set, ctx, rule.no_resolve)
    [] rule.type = "and" -> \A i \in DOMAIN rule.kids : MatchesRule(rule.kids[i], ctx)
    [] rule.type = "or" -> \E i \in DOMAIN rule.kids : MatchesRule(rule.kids[i], ctx)
    [] rule.type = "not" -> ~MatchesRule(rule.kids[1], ctx)
    [] rule.type = "match" -> TRUE

\* wants_dst_ip: whether the address must be known to decide this rule.
WantsDstIpFlat(rule) ==
  /\ ~rule.no_resolve
  /\ rule.type = "addr" \/ (rule.type = "set" /\ CarriesDstIpEntries(rule.set))
RECURSIVE WantsDstIp(_)
WantsDstIp(rule) ==
  /\ ~rule.no_resolve
  /\ CASE rule.type = "addr" -> TRUE
       [] rule.type = "set" -> CarriesDstIpEntries(rule.set)
       [] rule.type \in {"and", "or", "not"} -> \E i \in DOMAIN rule.kids : WantsDstIp(rule.kids[i])
       [] OTHER -> FALSE

\* compile_rules: what the loader refuses.
RECURSIVE CompileRule(_)
CompileRule(rule) ==
  CASE rule.type \in {"and", "or"} -> /\ Len(rule.kids) > 0
                                      /\ \A i \in DOMAIN rule.kids : CompileRule(rule.kids[i])
    [] rule.type = "not" -> Len(rule.kids) = 1 /\ CompileRule(rule.kids[1])
    [] OTHER -> TRUE
CompileRules(rs) == \A i \in DOMAIN rs : CompileRule(rs[i])

\* resolve_default_outbounds: the first direct outbound, the first group or
\* other proxy, and the first outbound of all.
ResolveDefaultOutbounds(c) ==
  LET direct == SelectSeq(c.outbounds, LAMBDA o : o.kind = "direct")
      groups == SelectSeq(c.outbounds, LAMBDA o : o.kind = "group")
      others == SelectSeq(c.outbounds, LAMBDA o : o.kind = "proxy")
  IN [direct |-> IF direct = << >> THEN "DIRECT" ELSE direct[1].tag,
      global |-> IF groups # << >> THEN groups[1].tag
                 ELSE IF others # << >> THEN others[1].tag ELSE "none",
      default |-> IF c.outbounds = << >>
                  THEN (IF direct = << >> THEN "DIRECT" ELSE direct[1].tag)
                  ELSE c.outbounds[1].tag]

----------------------------------------------------------------------------
(* Initial configurations                                                  *)

Outbounds(v) == {<< >>,
                 <<[kind |-> "proxy", tag |-> v], [kind |-> "direct", tag |-> "direct"]>>,
                 <<[kind |-> "direct", tag |-> "direct"], [kind |-> "group", tag |-> v]>>}
SetsOf(rs) == UNION {{rs[i].set} : i \in {i \in DOMAIN rs : rs[i].type = "set"}}
RuleLists(S, n) == UNION {[1 .. k -> S] : k \in 0 .. n}
Loaded(names, v, c) == [n \in names |-> [config |-> v, index |-> c]]

\* Router::new has compiled the rules, found their providers and loaded them.
Init ==
  /\ \E rs \in RuleLists(Rules, MaxRules), c \in Contents, o \in Outbounds("p"),
        m \in {"rule", "global", "direct"} :
       /\ CompileRules(rs)
       /\ Usable(c)
       /\ Len(rs) < MaxRules \/ (m = "rule" /\ o # << >>)
       /\ conf = [mode |-> m, rules |-> rs, outbounds |-> o,
                  providers |-> [n \in SetsOf(rs) |-> "old"]]
       /\ providers = Loaded(SetsOf(rs), "old", c)
  /\ runtimeMode \in IF conf.mode = "rule" /\ Len(conf.rules) < MaxRules
                     THEN {"config", "global", "direct"} ELSE {"config"}
  /\ request \in [name : BOOLEAN, ip : BOOLEAN, answers : BOOLEAN, cn : BOOLEAN]
  /\ request.cn => Len(conf.rules) = 0
  /\ rules = conf.rules
  /\ defaults = ResolveDefaultOutbounds(conf)
  /\ cache = "none"
  /\ lookups = 0
  /\ d = [pc |-> "mode", mode |-> "none", defaults |-> defaults, at |-> 1,
          resolved |-> FALSE, attempted |-> FALSE, out |-> "none", rule |-> 0]
  /\ r = [pc |-> "idle", new |-> << >>, add |-> {}]
  /\ u = "idle"
  /\ fetches = 0

----------------------------------------------------------------------------
(* decide                                                                  *)

Others == UNCHANGED <<conf, runtimeMode, request, rules, defaults, providers, r, u, fetches>>

ReadMode == /\ d.pc = "mode"
            /\ d' = [d EXCEPT !.pc = "defaults",
                       !.mode = IF runtimeMode = "config" THEN conf.mode ELSE runtimeMode]
            /\ Others /\ UNCHANGED <<cache, lookups>>
Decided(out, i) == [d EXCEPT !.pc = "done", !.out = out, !.rule = i]
ReadDefaults ==
  /\ d.pc = "defaults"
  /\ d' = LET s == [d EXCEPT !.defaults = defaults]
          IN CASE d.mode = "global" ->
                    [s EXCEPT !.pc = "done", !.out = IF defaults.global = "none"
                                                     THEN defaults.direct ELSE defaults.global]
               [] d.mode = "direct" -> [s EXCEPT !.pc = "done", !.out = defaults.direct]
               [] OTHER -> [s EXCEPT !.pc = "lock"]
  /\ Others /\ UNCHANGED <<cache, lookups>>
\* rules.read(): held until the decision; a writer waits.
LockRules ==
  /\ d.pc = "lock"
  /\ r.pc # "rules"          \* a waiting writer goes first
  /\ d' = [d EXCEPT !.pc = "rule", !.attempted = request.ip \/ rules = << >>]
  /\ Others /\ UNCHANGED <<cache, lookups>>

ResolveUntilFound(k) ==
  LET got == request.name /\ request.answers
  IN /\ UNCHANGED cache
     /\ lookups' = 1
     /\ d' = [d EXCEPT !.pc = k, !.resolved = got, !.attempted = got]
\* resolve_destination_ips: a cached answer, good or bad, or a lookup that
\* is bounded by its timeout.
Resolve(k) ==
  LET got == request.name /\ (IF cache = "none" THEN request.answers ELSE cache = "found")
  IN /\ cache' = IF request.name THEN (IF got THEN "found" ELSE "failed") ELSE cache
     /\ lookups' = lookups + 1
     /\ d' = [d EXCEPT !.pc = k, !.resolved = got, !.attempted = TRUE]
CacheExpires == /\ cache # "none"
                /\ cache' = "none"
                /\ Others /\ UNCHANGED <<lookups, d>>

\* With no rules at all mainland-China names and addresses go direct.
NoRules ==
  /\ d.pc = "rule"
  /\ rules = << >>
  /\ \/ /\ ~request.ip /\ lookups = 0
        /\ Resolve("rule")
     \/ /\ request.ip \/ lookups > 0
        /\ d' = Decided(IF request.cn /\ (request.name \/ request.ip \/ d.resolved)
                        THEN d.defaults.direct ELSE d.defaults.default, 0)
        /\ UNCHANGED <<cache, lookups>>
  /\ Others
MatchRule ==
  /\ d.pc = "rule"
  /\ rules # << >>
  /\ LET rule == rules[d.at]
         ctx == [ip |-> request.ip, resolved |-> d.resolved]
     IN IF ~d.attempted /\ ~request.ip /\ WantsDstIp(rule) THEN Resolve("rule")
        ELSE /\ UNCHANGED <<cache, lookups>>
             /\ d' = IF MatchesRule(rule, ctx) THEN Decided(rule.out, d.at)
                     ELSE IF d.at = Len(rules) THEN Decided(d.defaults.default, 0)
                     ELSE [d EXCEPT !.at = @ + 1]
  /\ Others
\* set_runtime_proxy_mode
SetMode == /\ d.pc = "mode" /\ runtimeMode = "config"
           /\ runtimeMode' = "rule"
           /\ UNCHANGED <<conf, request, rules, defaults, providers, cache, lookups, d, r, u, fetches>>

----------------------------------------------------------------------------
(* reload                                                                  *)

Quiet == UNCHANGED <<runtimeMode, request, cache, lookups, d, u, fetches>>

\* The configuration is replaced, then reload() compiles it; a rule that does
\* not compile leaves the router as it was.
ReloadCompile ==
  /\ r.pc = "idle"
  /\ \E rs \in RuleLists(NewRules, 1) :
       LET c == [mode |-> conf.mode, rules |-> rs,
                 outbounds |-> <<[kind |-> "proxy", tag |-> "q"]>>,
                 providers |-> [n \in SetsOf(rs) |-> "new"]]
       IN /\ conf' = c
          /\ r' = IF CompileRules(rs) THEN [pc |-> "rules", new |-> rs, add |-> {}]
                  ELSE [pc |-> "failed", new |-> << >>, add |-> {}]
  /\ UNCHANGED <<rules, defaults, providers>> /\ Quiet
ReloadRules == /\ r.pc = "rules"
               /\ d.pc # "rule"
               /\ rules' = r.new
               /\ r' = [r EXCEPT !.pc = "defaults"]
               /\ UNCHANGED <<conf, defaults, providers>> /\ Quiet
ReloadDefaults == /\ r.pc = "defaults"
                  /\ defaults' = ResolveDefaultOutbounds(conf)
                  /\ r' = [r EXCEPT !.pc = "remove"]
                  /\ UNCHANGED <<conf, rules, providers>> /\ Quiet

NoReader == u # "fetching"     \* update_all keeps the map's read lock
Changed(n) == n \in DOMAIN providers /\ providers[n].config # conf.providers[n]
\* refresh_rule_providers: what is gone is removed; what is new or changed is
\* removed first and then loaded.
RefreshKeepsStale == /\ r.pc = "remove" /\ NoReader
                     /\ r' = [r EXCEPT !.pc = "load", !.add = DOMAIN conf.providers \ DOMAIN providers]
                     /\ UNCHANGED <<conf, rules, defaults, providers>> /\ Quiet
RefreshRemove ==
  /\ r.pc = "remove"
  /\ NoReader
  /\ LET kept == {n \in DOMAIN providers \cap DOMAIN conf.providers : ~Changed(n)}
     IN /\ providers' = [n \in kept |-> providers[n]]
        /\ r' = [r EXCEPT !.pc = "load", !.add = DOMAIN conf.providers \ kept]
  /\ UNCHANGED <<conf, rules, defaults>> /\ Quiet
RefreshAdd ==
  /\ r.pc = "load"
  /\ \/ /\ r.add = {}
        /\ r' = [r EXCEPT !.pc = "ok"]
        /\ UNCHANGED providers
     \/ \E n \in r.add :
          \/ /\ r' = [r EXCEPT !.pc = "failed"]       \* load failed: `?`
             /\ UNCHANGED providers
          \/ \E c \in Contents :
               /\ NoReader
               /\ Usable(c)
               /\ providers' = [m \in DOMAIN providers \cup {n} |->
                                  IF m = n THEN [config |-> conf.providers[n], index |-> c]
                                  ELSE providers[m]]
               /\ r' = [r EXCEPT !.add = @ \ {n}]
  /\ UNCHANGED <<conf, rules, defaults>> /\ Quiet

----------------------------------------------------------------------------
(* update_all                                                              *)

UpdaterOnly == UNCHANGED <<conf, runtimeMode, request, rules, defaults, cache, lookups, d, r>>
UpdateStart == /\ u = "idle" /\ fetches < MaxFetches
               /\ providers # << >>
               /\ r.pc # "remove"       \* a waiting writer goes first
               /\ u' = "fetching" /\ fetches' = fetches + 1
               /\ UNCHANGED providers /\ UpdaterOnly
StoreAnyway(old, c) == c
\* RuleProvider::load: the index is replaced only by one that can match.
StoreIndex(old, c) == IF Usable(c) THEN c ELSE old
UpdateLoad == /\ u = "fetching"
              /\ u' = "idle"
              /\ \E n \in DOMAIN providers, c \in Contents :
                   providers' = [providers EXCEPT ![n].index = StoreIndex(@, c)]
              /\ UNCHANGED fetches /\ UpdaterOnly

Decide == ReadMode \/ ReadDefaults \/ LockRules \/ NoRules \/ MatchRule
Reloading == ReloadRules \/ ReloadDefaults \/ RefreshRemove \/ RefreshAdd
Reload == ReloadCompile \/ Reloading
Next == Decide \/ Reload \/ CacheExpires \/ SetMode \/ UpdateStart \/ UpdateLoad

\* The three threads run; downloads and lookups are bounded by timeouts.
Spec == /\ Init /\ [][Next]_vars
        /\ WF_vars(Decide) /\ WF_vars(Reloading) /\ WF_vars(UpdateLoad)

----------------------------------------------------------------------------
(* Properties                                                              *)

\* Composite rules that carry a no-resolve flag of their own are undecided:
\* whether their parts see an address depends on the rules before them.
RECURSIVE Plain(_)
Plain(rule) == /\ rule.type \in {"and", "or", "not"} => ~rule.no_resolve
               /\ \A i \in DOMAIN rule.kids : Plain(rule.kids[i])
\* The verdict of the rule list on a request whose name is resolved up front.
FirstMatch == LET ctx == [ip |-> request.ip, resolved |-> request.name /\ request.answers]
              IN SelectInSeq(rules, LAMBDA x : MatchesRule(x, ctx))
Undisturbed == r.pc = "idle" /\ fetches = 0

\* Resolving a name late, at most once, and only when a rule needs it changes
\* no verdict: the decision is that of the first rule that matches with the
\* address known from the start.
LazyIsEager ==
  d.pc = "done" /\ d.mode = "rule" /\ Undisturbed /\ (\A i \in DOMAIN rules : Plain(rules[i])) =>
     /\ d.rule = FirstMatch
     /\ lookups <= 1
     /\ d.out = IF d.rule = 0
                THEN (IF rules = << >> /\ request.cn
                          /\ (request.name \/ request.ip \/ d.resolved)
                      THEN defaults.direct ELSE defaults.default)
                ELSE rules[d.rule].out

\* A reload that reports success leaves exactly the configured providers,
\* each loaded from its new configuration, and no provider - refreshed in the
\* background or not - is ever left without a rule that can match.
ProvidersFollow ==
  /\ r.pc = "ok" => /\ DOMAIN providers = DOMAIN conf.providers
                    /\ \A n \in DOMAIN providers : providers[n].config = conf.providers[n]
                    /\ rules = conf.rules /\ defaults = ResolveDefaultOutbounds(conf)
  /\ \A n \in DOMAIN providers : Usable(providers[n].index)

\* Routing a connection and reloading always come to an end, although the
\* router holds the rules' lock through a lookup and the updater holds the
\* providers' lock through a download.
Owed == d.pc # "done" \/ r.pc \notin {"idle", "ok", "failed"}
RoutingEnds == <>[]~Owed
============================================================================
