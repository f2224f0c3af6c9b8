------------------------------- MODULE Providers -------------------------------
(***************************************************************************)
(* engine/outbound.rs and engine/proxy_provider.rs: the shared registry    *)
(* through which every connection finds its outbound, and the two threads  *)
(* that write it: a configuration reload and the provider updater's        *)
(* refresh.  One proxy provider (a subscription) is modelled; its nodes    *)
(* are registered beside the leaf proxies and groups of the profile.       *)
(*                                                                         *)
(* Each acquisition of the registry lock is a step.  The lock around the   *)
(* provider table is held for reading by the updater during a refresh,     *)
(* downloads included, and taken for writing by clear() and add_provider.  *)
(***************************************************************************)
EXTENDS Naturals, FiniteSets

CONSTANTS
  Leaves,      \* tags of leaf proxies a profile may define
  Groups,      \* tags of proxy groups a profile may define
  Nodes,       \* tags of nodes the subscription may list
  HasPath,     \* the provider has a cache file (`path`)
  MaxReloads,  \* bound on reloads
  MaxRefresh,  \* bound on refreshes
  NoCache      \* the cache file does not exist

ProvidersAssumption ==
  /\ HasPath \in BOOLEAN
  /\ MaxReloads \in Nat /\ MaxRefresh \in Nat
  /\ Leaves \cap Groups = {} /\ Leaves \cap Nodes = {} /\ Groups \cap Nodes = {}

VARIABLES
  conf,       \* tags the current profile defines
  registry,   \* OutboundManager.proxies
  tags,       \* OutboundManager.provider_tags
  loaded,     \* the provider is in the provider table
  nodes,      \* ProxyProvider.proxies
  remote,     \* what the subscription URL serves now
  cache,      \* content of the cache file
  rpc,        \* reload: "idle", "clear", "provClear", "leaves", "load", "snap",
              \*   "nodes", "groups", "tags"
  rtodo,      \* tags the current loop of the reload still has to insert
  rtags,      \* provider tags the reload has collected
  upc,        \* updater: "idle", "update", "snap", "sync"
  ucur,       \* the updater's snapshot of the provider nodes
  reloads, refreshes,
  result,     \* outcome of the last reload: "none", "ok", "err"
  crossed,    \* history: a reload and a refresh have overlapped
  fresh       \* history: the last successful refresh got what the URL served

ruVars == <<reloads, refreshes>>
hist == <<result, crossed, fresh>>
vars == <<conf, registry, tags, loaded, nodes, remote, cache, rpc, rtodo, rtags, upc, ucur,
          ruVars, hist>>

Tags == Leaves \cup Groups \cup Nodes

TypeOK ==
  /\ conf \subseteq Leaves \cup Groups
  /\ registry \subseteq Tags
  /\ tags \subseteq Nodes
  /\ loaded \in BOOLEAN
  /\ nodes \subseteq Nodes
  /\ remote \subseteq Nodes
  /\ cache \in SUBSET Nodes \cup {NoCache}
  /\ rpc \in {"idle", "clear", "provClear", "leaves", "load", "snap", "nodes", "groups", "tags"}
  /\ rtodo \subseteq Tags
  /\ rtags \subseteq Nodes
  /\ upc \in {"idle", "update", "snap", "sync"}
  /\ ucur \subseteq Nodes
  /\ reloads \in 0..MaxReloads
  /\ refreshes \in 0..MaxRefresh
  /\ result \in {"none", "ok", "err"}
  /\ crossed \in BOOLEAN
  /\ fresh \in BOOLEAN

\* The engine has been built from a profile and the subscription it lists.
Init ==
  /\ conf \in SUBSET (Leaves \cup Groups)
  /\ remote \in SUBSET Nodes
  /\ nodes = remote /\ tags = remote /\ loaded = TRUE
  /\ registry = conf \cup remote
  /\ cache = IF HasPath THEN remote ELSE NoCache
  /\ rpc = "idle" /\ rtodo = {} /\ rtags = {}
  /\ upc = "idle" /\ ucur = {}
  /\ reloads = 0 /\ refreshes = 0
  /\ result = "none" /\ crossed = FALSE /\ fresh = TRUE

RemoteChange ==
  /\ remote' \in SUBSET Nodes \ {remote}
  /\ UNCHANGED <<conf, registry, tags, loaded, nodes, cache, rpc, rtodo, rtags, upc, ucur,
                 ruVars, hist>>

\* load_from_http: a cache file that exists is read in place of the URL, and a
\* download is written to it.
Content == IF HasPath /\ cache # NoCache THEN cache ELSE remote
CacheAfterLoad == IF HasPath THEN Content ELSE NoCache

-----------------------------------------------------------------------------
(* OutboundManager::reload                                                 *)

ReloadBegin ==
  /\ rpc = "idle" /\ reloads < MaxReloads
  /\ reloads' = reloads + 1
  /\ conf' \in SUBSET (Leaves \cup Groups)
  /\ crossed' = (crossed \/ upc # "idle")
  /\ rpc' = "clear"
  /\ UNCHANGED <<registry, tags, loaded, nodes, remote, cache, rtodo, rtags, upc, ucur,
                 refreshes, result, fresh>>

ReloadClear ==
  /\ rpc = "clear"
  /\ registry' = {}
  /\ rpc' = "provClear"
  /\ UNCHANGED <<conf, tags, loaded, nodes, remote, cache, rtodo, rtags, upc, ucur, ruVars, hist>>

\* proxy_providers.clear() waits for a refresh that holds the table.
ReloadProvClear ==
  /\ rpc = "provClear" /\ upc # "update"
  /\ loaded' = FALSE
  /\ nodes' = {}
  /\ rtodo' = conf \cap Leaves
  /\ rtags' = {}
  /\ rpc' = "leaves"
  /\ UNCHANGED <<conf, registry, tags, remote, cache, upc, ucur, ruVars, hist>>

\* One insertion under the registry's lock.
Insert(from, next) ==
  /\ rpc = from
  /\ \/ \E t \in rtodo :
          /\ registry' = registry \cup {t}
          /\ rtodo' = rtodo \ {t}
          /\ rtags' = IF from = "nodes" THEN rtags \cup {t} ELSE rtags
          /\ UNCHANGED rpc
     \/ /\ rtodo = {}
        /\ rtodo' = IF next = "groups" THEN conf \cap Groups ELSE {}
        /\ rpc' = next
        /\ UNCHANGED <<registry, rtags>>
  /\ UNCHANGED <<conf, tags, loaded, nodes, remote, cache, upc, ucur, ruVars, hist>>

ReloadLeaves == Insert("leaves", "load")
ReloadNodes == Insert("nodes", "groups")
ReloadGroups == Insert("groups", "tags")

\* add_provider: load, then enter the table.
ReloadLoad ==
  /\ rpc = "load" /\ upc # "update"
  /\ nodes' = Content
  /\ cache' = CacheAfterLoad
  /\ loaded' = TRUE
  /\ rpc' = "snap"
  /\ UNCHANGED <<conf, registry, tags, remote, rtodo, rtags, upc, ucur, ruVars, hist>>

\* A leaf, the provider or a group cannot be built: the error is returned and
\* nothing is put back.
ReloadError ==
  /\ rpc \in {"leaves", "load", "groups"}
  /\ rpc' = "idle"
  /\ rtodo' = {}
  /\ result' = "err"
  /\ UNCHANGED <<conf, registry, tags, loaded, nodes, remote, cache, rtags, upc, ucur, ruVars,
                 crossed, fresh>>

ReloadSnap ==
  /\ rpc = "snap"
  /\ rtodo' = nodes
  /\ rpc' = "nodes"
  /\ UNCHANGED <<conf, registry, tags, loaded, nodes, remote, cache, rtags, upc, ucur, ruVars, hist>>

ReloadTags ==
  /\ rpc = "tags"
  /\ tags' = rtags
  /\ rpc' = "idle"
  /\ result' = "ok"
  /\ UNCHANGED <<conf, registry, loaded, nodes, remote, cache, rtodo, rtags, upc, ucur, ruVars,
                 crossed, fresh>>

Reload ==
  \/ ReloadBegin \/ ReloadClear \/ ReloadProvClear \/ ReloadLeaves \/ ReloadLoad
  \/ ReloadSnap \/ ReloadNodes \/ ReloadGroups \/ ReloadTags \/ ReloadError

-----------------------------------------------------------------------------
(* The updater's refresh                                                   *)

RefreshBegin ==
  /\ upc = "idle" /\ refreshes < MaxRefresh
  /\ refreshes' = refreshes + 1
  /\ crossed' = (crossed \/ rpc # "idle")
  /\ upc' = "update"
  /\ UNCHANGED <<conf, registry, tags, loaded, nodes, remote, cache, rpc, rtodo, rtags, ucur,
                 reloads, result, fresh>>

\* update_all: the provider, if it is in the table, is loaded again.
RefreshUpdate ==
  /\ upc = "update" /\ loaded
  /\ nodes' = Content
  /\ cache' = CacheAfterLoad
  /\ fresh' = (Content = remote)
  /\ upc' = "snap"
  /\ UNCHANGED <<conf, registry, tags, loaded, remote, rpc, rtodo, rtags, ucur, ruVars,
                 result, crossed>>

\* There is nothing to update, it is not due, or the download failed: the
\* nodes stay, and the sync follows all the same.
RefreshNothing ==
  /\ upc = "update"
  /\ upc' = "snap"
  /\ UNCHANGED <<conf, registry, tags, loaded, nodes, remote, cache, rpc, rtodo, rtags, ucur,
                 ruVars, hist>>

RefreshSnap ==
  /\ upc = "snap"
  /\ ucur' = nodes
  /\ upc' = "sync"
  /\ UNCHANGED <<conf, registry, tags, loaded, nodes, remote, cache, rpc, rtodo, rtags, ruVars, hist>>

\* Fault: nodes that disappeared from the subscription stay registered.
SyncAddsOnly ==
  /\ upc = "sync"
  /\ registry' = registry \cup ucur
  /\ tags' = tags \cup ucur
  /\ upc' = "idle"
  /\ UNCHANGED <<conf, loaded, nodes, remote, cache, rpc, rtodo, rtags, ucur, ruVars, hist>>

\* Fault: the registry is rebuilt from the providers alone.
SyncRebuilds ==
  /\ upc = "sync"
  /\ registry' = ucur
  /\ tags' = ucur
  /\ upc' = "idle"
  /\ UNCHANGED <<conf, loaded, nodes, remote, cache, rpc, rtodo, rtags, ucur, ruVars, hist>>

\* sync_provider_proxies, under the registry and tag locks.
RefreshSync ==
  /\ upc = "sync"
  /\ registry' = (registry \ (tags \ ucur)) \cup ucur
  /\ tags' = ucur
  /\ upc' = "idle"
  /\ UNCHANGED <<conf, loaded, nodes, remote, cache, rpc, rtodo, rtags, ucur, ruVars, hist>>

Refresh == RefreshBegin \/ RefreshUpdate \/ RefreshNothing \/ RefreshSnap \/ RefreshSync

Next == Reload \/ Refresh \/ RemoteChange

Spec == Init /\ [][Next]_vars

-----------------------------------------------------------------------------
(* Properties                                                              *)

Quiet == rpc = "idle" /\ upc = "idle"

\* While reloads and refreshes do not overlap and no reload fails, the
\* registry is exactly the profile and the provider's nodes, and provider_tags
\* knows which entries the next sync may remove.
RegistryExact ==
  Quiet /\ ~crossed /\ result # "err" => registry = conf \cup nodes /\ tags = nodes

\* Whatever overlaps, and also after a failed reload, a sync removes nothing
\* that the profile defines and registers every node it has seen.
SyncSparesProfile ==
  [][RefreshSync => /\ registry \cap conf \subseteq registry'
                    /\ ucur \subseteq registry' ]_vars

\* "rule providers and proxy providers refresh on an interval" (README.md:75):
\* a refresh that succeeded has the nodes the URL served when it ran.
RefreshIsFresh == fresh
=============================================================================
