----------------------------- MODULE ConfigPipeline -----------------------------
(***************************************************************************)
(* api.rs, engine/config.rs, engine/config/validator.rs, engine/mod.rs,    *)
(* engine/proxy.rs and engine/outbound.rs: how a configuration document    *)
(* becomes an engine.  Four entry points read a document: start and        *)
(* initialize install a new engine, reload reconfigures the installed one, *)
(* test_config builds an engine and throws it away.  They run on the RPC   *)
(* and FFI threads of their callers, so two of them may overlap: only the  *)
(* instance itself is behind a lock, while the provider lists and the      *)
(* resolver's settings are process-wide and written on the way.            *)
(*                                                                         *)
(* A document is a record: the proxies, the group, the rules and the       *)
(* providers it names, and the one defect, if any, that some check of the  *)
(* pipeline looks for.                                                     *)
(***************************************************************************)
EXTENDS Naturals, FiniteSets

CONSTANTS
  Callers,   \* threads inside an entry point
  Docs,      \* the documents they may be handed
  NodesOf,   \* provider name -> the tags of the nodes it lists
  Group,     \* the tag of the documents' proxy group
  Builtins,  \* member names the validator takes without an outbound: direct, reject
  MaxCalls,  \* bound on the calls of a run
  None       \* no engine

VARIABLES
  rprovs,    \* RUNTIME_RULE_PROVIDERS
  pprovs,    \* RUNTIME_PROXY_PROVIDERS
  dns,       \* the document whose resolver settings are in force
  engine,    \* CORDUIT_INSTANCE
  lock,      \* the caller that holds it for writing through a reload
  pc,        \* where each caller is
  call,      \* its operation and its document
  built,     \* the engine it is building
  calls      \* calls made

globals == <<rprovs, pprovs, dns>>
vars == <<rprovs, pprovs, dns, engine, lock, pc, call, built, calls>>

\* What a document tells the pipeline: `dns` and `general` matter here only by
\* their defects and as the resolver settings they carry along.
IsDocument(d) ==
  /\ DOMAIN d = {"defect", "leaves", "members", "use", "asText", "targets", "sets", "rprovs", "pprovs"}
  /\ Group \notin d.leaves
  /\ d.use # {} => d.members # {}
  /\ d.pprovs \cup d.use \subseteq DOMAIN NodesOf

ConfigAssumption == (\A d \in Docs : IsDocument(d)) /\ None \notin Docs /\ None \notin Callers

TypeOK ==
  /\ dns \in Docs \cup {None} /\ lock \in Callers \cup {None}
  /\ pprovs \subseteq DOMAIN NodesOf
  /\ engine # None => engine.shared \in Docs /\ engine.own \in Docs
  /\ calls \in 0..MaxCalls

Ops == {"start", "initialize", "reloadCore", "reloadFfi", "test"}

-----------------------------------------------------------------------------
(* What each check of the pipeline refuses                                 *)

\* configure_rule_providers, configure_proxy_providers: not JSON at all, an
\* interval below a minute, a URL that is missing or not HTTPS, a missing path.
RuleProvidersRefused(d) == d.defect \in {"json", "ruleInterval", "ruleUrl", "rulePath"}
ProxyProvidersRefused(d) == d.defect \in {"json", "proxyInterval", "proxyUrl", "proxyPath"}

\* The core document names its types by the spellings of impl_config_enum.
CoreParseRefused(d) == d.defect \in {"json", "struct", "unknownType"}

\* convert_ffi_config_to_core: the options are a JSON text of their own, and the
\* parsers know fewer names than the core ("socks4", "naive", "ss", "in-port").
FfiParseRefused(d) == d.defect \in {"json", "struct", "options", "unknownType", "coreOnlyType"}

ParseRefused(op, d) ==
  IF op \in {"start", "reloadCore"} THEN CoreParseRefused(d) ELSE FfiParseRefused(d)

GeneralRefused(d) == d.defect \in {"portZero", "bindEmpty", "controller", "ipv6Bind"}
DnsRefused(d) ==
  d.defect \in {"dnsListen", "dnsServer", "dnsPolicy", "fakeRange", "fakeFilter", "fallbackCidr",
                "hosts", "cacheZero"}
InboundsRefused(d) == d.defect \in {"noInbound", "inboundTag", "inboundPort", "tunInbound"}

\* At least one direct outbound, no tag twice, a server for every remote one.
OutboundsRefused(d) ==
  \/ d.leaves = {}
  \/ d.defect \in {"outboundTag", "disabledFeature", "noDirect", "noServer"}
RulesRefused(d) == d.defect \in {"payload", "children"}

Tags(d) == d.leaves \cup (IF d.members = {} THEN {} ELSE {Group})

\* The rules' outbounds left unchecked.
CrossRefusedRulesUnchecked(d, ps) ==
  \/ d.defect = "noMembers"
  \/ ps = {} /\ ~(d.members \subseteq Tags(d) \cup Builtins)
  \/ d.members # {} /\ ~(d.use \subseteq ps)

\* validate_cross_references, with the provider list of the moment.  With any
\* provider declared a member that is not a known tag is let through.
CrossRefused(d, ps) ==
  \/ ~(d.targets \subseteq Tags(d))
  \/ d.defect = "noMembers"
  \/ ps = {} /\ ~(d.members \subseteq Tags(d) \cup Builtins)
  \/ d.members # {} /\ ~(d.use \subseteq ps)

ValidateRefused(d, ps) ==
  \/ GeneralRefused(d) \/ DnsRefused(d) \/ InboundsRefused(d) \/ OutboundsRefused(d)
  \/ RulesRefused(d) \/ CrossRefused(d, ps)

\* Router::compile_rules: a pattern that does not parse.
CompileRefused(d) == d.defect = "pattern"
\* build_outbound_proxy: an option the protocol's constructor refuses.
ProtocolRefused(d) == d.defect = "protocol"

-----------------------------------------------------------------------------
(* Building the outbounds                                                  *)

Nodes(ps) == UNION {NodesOf[p] : p \in ps}

\* expand_provider_use reads `outbounds` only when it is an array, so members
\* given as a JSON text are lost once `use` adds the provider's nodes.
Members(d) ==
  IF d.use = {} THEN d.members ELSE (IF d.asText THEN {} ELSE d.members) \cup Nodes(d.use)

\* OutboundManager::build_outbounds: the outcomes it can have with the provider
\* list ps, as the registry it leaves and whether it succeeded.  A provider's
\* load fails with the download or the file.
BuildOutcomes(d, ps) ==
  IF ProtocolRefused(d)
  THEN {[ok |-> FALSE, registry |-> s, table |-> {}] : s \in SUBSET d.leaves}
  ELSE {[ok |-> FALSE, registry |-> d.leaves, table |-> s] : s \in SUBSET ps \ {ps}}
       \cup (IF d.members # {} /\ (~(d.use \subseteq ps) \/ Members(d) = {})
             THEN {[ok |-> FALSE, registry |-> d.leaves \cup Nodes(ps), table |-> ps]}
             ELSE {[ok |-> TRUE, registry |-> Tags(d) \cup Nodes(ps), table |-> ps]})

-----------------------------------------------------------------------------

NoEngine == [shared |-> None, own |-> None, rules |-> None, listeners |-> None, rmgr |-> {},
             registry |-> {}, table |-> {}, members |-> {}, strict |-> FALSE, reloaded |-> FALSE,
             settled |-> FALSE]

Init ==
  /\ rprovs = {} /\ pprovs = {} /\ dns = None
  /\ engine = None /\ lock = None
  /\ pc = [c \in Callers |-> "idle"]
  /\ call = [c \in Callers |-> None]
  /\ built = [c \in Callers |-> NoEngine]
  /\ calls = 0

Doc(c) == call[c].doc
Goto(c, l) == pc' = [pc EXCEPT ![c] = l]
\* The caller is answered, with an error or a value.
Return(c) == Goto(c, "idle")

Call(c) ==
  /\ pc[c] = "idle" /\ calls < MaxCalls
  /\ \E op \in Ops, d \in Docs :
       /\ call' = [call EXCEPT ![c] = [op |-> op, doc |-> d]]
       /\ Goto(c, IF op = "reloadCore" THEN "parse" ELSE "ruleProviders")
  /\ built' = [built EXCEPT ![c] = NoEngine]
  /\ calls' = calls + 1
  /\ UNCHANGED <<globals, engine, lock>>

ConfigureRuleProviders(c) ==
  /\ pc[c] = "ruleProviders"
  /\ IF RuleProvidersRefused(Doc(c))
     THEN Return(c) /\ UNCHANGED rprovs
     ELSE Goto(c, "proxyProviders") /\ rprovs' = Doc(c).rprovs
  /\ UNCHANGED <<pprovs, dns, engine, lock, call, built, calls>>

ConfigureProxyProviders(c) ==
  /\ pc[c] = "proxyProviders"
  /\ IF ProxyProvidersRefused(Doc(c))
     THEN Return(c) /\ UNCHANGED pprovs
     ELSE Goto(c, "parse") /\ pprovs' = Doc(c).pprovs
  /\ UNCHANGED <<rprovs, dns, engine, lock, call, built, calls>>

Parse(c) ==
  /\ pc[c] = "parse"
  /\ IF ParseRefused(call[c].op, Doc(c))
     THEN Return(c)
     ELSE Goto(c, CASE call[c].op \in {"start", "initialize"} -> "clear"
                    [] call[c].op = "test" -> "validate"
                    [] OTHER -> "reload")
  /\ UNCHANGED <<globals, engine, lock, call, built, calls>>

\* install_instance: the engine that was running is stopped and dropped before
\* the new one is built.
Clear(c) ==
  /\ pc[c] = "clear" /\ lock = None
  /\ engine' = None
  /\ Goto(c, "validate")
  /\ UNCHANGED <<globals, lock, call, built, calls>>

\* Corduit::new up to the proxy manager: the resolver is configured as soon as
\* the document is valid.
Validate(c) ==
  /\ pc[c] = "validate"
  /\ IF ValidateRefused(Doc(c), pprovs)
     THEN Return(c) /\ UNCHANGED <<dns, built>>
     ELSE /\ dns' = Doc(c)
          /\ built' = [built EXCEPT ![c].shared = Doc(c), ![c].own = Doc(c),
                                    ![c].strict = (pprovs = {})]
          /\ Goto(c, "router")
  /\ UNCHANGED <<rprovs, pprovs, engine, lock, call, calls>>

\* Router::new takes one snapshot of the provider list, for the check and for
\* the load.
NewRouter(c) ==
  /\ pc[c] = "router"
  /\ \/ /\ ~CompileRefused(Doc(c)) /\ Doc(c).sets \subseteq rprovs
        /\ built' = [built EXCEPT ![c].rules = Doc(c), ![c].rmgr = rprovs]
        /\ Goto(c, "outbounds")
     \/ /\ CompileRefused(Doc(c)) \/ ~(Doc(c).sets \subseteq rprovs) \/ rprovs # {}
        /\ Return(c) /\ UNCHANGED built
  /\ UNCHANGED <<globals, engine, lock, call, calls>>

\* OutboundManager::new, and InboundManager::new, which cannot fail.
NewOutbounds(c) ==
  /\ pc[c] = "outbounds"
  /\ \E o \in BuildOutcomes(Doc(c), pprovs) :
       IF o.ok
       THEN /\ built' = [built EXCEPT ![c].registry = o.registry, ![c].table = o.table,
                                      ![c].members = Members(Doc(c)), ![c].listeners = Doc(c),
                                      ![c].settled = TRUE]
            /\ IF call[c].op = "test" THEN Return(c) ELSE Goto(c, "set")
       ELSE Return(c) /\ UNCHANGED built
  /\ UNCHANGED <<globals, engine, lock, call, calls>>

SetInstance(c) ==
  /\ pc[c] = "set" /\ lock = None
  /\ engine' = built[c]
  /\ Return(c)
  /\ UNCHANGED <<globals, lock, call, built, calls>>

-----------------------------------------------------------------------------
(* Corduit::reload, with the instance locked throughout                    *)

\* A reload that gives up: the locks go, the steps taken stay.
GiveUp(c) ==
  /\ lock' = None
  /\ Return(c)

ReloadBegin(c) ==
  /\ pc[c] = "reload" /\ lock = None
  /\ IF engine = None
     THEN Return(c) /\ UNCHANGED <<dns, engine, lock>>
     ELSE /\ lock' = c
          /\ dns' = Doc(c)
          /\ engine' = [engine EXCEPT !.shared = Doc(c), !.reloaded = TRUE, !.settled = FALSE]
          /\ Goto(c, "reloadRouter")
  /\ UNCHANGED <<rprovs, pprovs, call, built, calls>>

\* The router's verdict thrown away.
ReloadRouterIgnored(c) ==
  /\ pc[c] = "reloadRouter"
  /\ engine' = IF CompileRefused(Doc(c)) THEN engine
               ELSE [engine EXCEPT !.rules = Doc(c), !.rmgr = rprovs]
  /\ Goto(c, "reloadInbounds")
  /\ UNCHANGED <<globals, lock, call, built, calls>>

\* Router::reload: rules and defaults, then refresh_rule_providers, which stops
\* at the first provider that does not load.
ReloadRouter(c) ==
  /\ pc[c] = "reloadRouter"
  /\ \/ /\ CompileRefused(Doc(c))
        /\ GiveUp(c) /\ UNCHANGED engine
     \/ /\ ~CompileRefused(Doc(c))
        /\ \/ /\ engine' = [engine EXCEPT !.rules = Doc(c), !.rmgr = rprovs]
              /\ Goto(c, "reloadInbounds") /\ UNCHANGED lock
           \/ \E some \in SUBSET rprovs \ {rprovs} :
                /\ engine.rmgr \cap rprovs \subseteq some
                /\ engine' = [engine EXCEPT !.rules = Doc(c), !.rmgr = some]
                /\ GiveUp(c)
  /\ UNCHANGED <<globals, call, built, calls>>

\* InboundManager::reload: the old listeners are stopped and replaced before a
\* new one is bound.
ReloadInbounds(c) ==
  /\ pc[c] = "reloadInbounds"
  /\ engine' = [engine EXCEPT !.listeners = Doc(c)]
  /\ GiveUp(c) \/ (Goto(c, "reloadOutbounds") /\ UNCHANGED lock)
  /\ UNCHANGED <<globals, call, built, calls>>

\* OutboundManager::reload clears the registry and the provider table, then
\* builds into them.
ReloadOutbounds(c) ==
  /\ pc[c] = "reloadOutbounds"
  /\ \E o \in BuildOutcomes(Doc(c), pprovs) :
       engine' = IF o.ok
                 THEN [engine EXCEPT !.registry = o.registry, !.table = o.table, !.own = Doc(c),
                                     !.members = Members(Doc(c)), !.settled = TRUE]
                 ELSE [engine EXCEPT !.registry = o.registry, !.table = o.table]
  /\ GiveUp(c)
  /\ UNCHANGED <<globals, call, built, calls>>

Next == \E c \in Callers :
  \/ Call(c) \/ ConfigureRuleProviders(c) \/ ConfigureProxyProviders(c) \/ Parse(c)
  \/ Clear(c) \/ Validate(c) \/ NewRouter(c) \/ NewOutbounds(c) \/ SetInstance(c)
  \/ ReloadBegin(c) \/ ReloadRouter(c) \/ ReloadInbounds(c) \/ ReloadOutbounds(c)

Spec == Init /\ [][Next]_vars

-----------------------------------------------------------------------------
(* Properties                                                              *)

\* In an engine that was installed and not reloaded since, whatever other calls
\* overlapped with its making, every rule sends to an outbound of its registry
\* and finds its rule set in its own provider table; and where the validator saw
\* no provider, every member of the group is registered or builtin.
InstalledResolves ==
  engine # None /\ ~engine.reloaded =>
    /\ engine.rules.targets \subseteq engine.registry
    /\ engine.rules.sets \subseteq engine.rmgr
    /\ engine.strict => engine.members \subseteq engine.registry \cup Builtins

\* An engine whose last reload, or whose installation, succeeded runs one
\* document: the rules, the listeners and the registry are all its own, and the
\* registry holds its tags and the nodes of the providers loaded, no more.
OneDocument ==
  engine # None /\ engine.settled =>
    /\ engine.own = engine.shared /\ engine.rules = engine.own /\ engine.listeners = engine.own
    /\ engine.registry = Tags(engine.own) \cup Nodes(engine.table)

\* An engine is whole: what its rules name is there, and all of it is of one
\* document.
InstalledIsWhole == InstalledResolves /\ OneDocument

\* A reload is atomic: whoever looks while no call holds the engine finds one
\* document in it, the old or the new.
ReloadIsAtomic == engine # None /\ lock = None => engine.settled

\* test_config only checks: none of its steps touches what the engine runs with.
DryRunIsInert ==
  [][\A c \in Callers : pc[c] # "idle" /\ pc'[c] # pc[c] /\ call[c].op = "test" => UNCHANGED globals]_vars
=============================================================================
