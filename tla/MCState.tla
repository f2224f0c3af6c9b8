------------------------------ MODULE MCState ------------------------------
(*****************************************************************************)
(* One run over components that share nothing and whose properties are all   *)
(* safety: `which` says which of them a behaviour is about, the slots hold   *)
(* its variables, and every bound and every value of a constant is given     *)
(* here. LruCache, which this module extends, keeps its own variables and    *)
(* stands still while another component runs.                                *)
(*****************************************************************************)
EXTENDS LruCache, Integers, FiniteSetsExt

VARIABLES which,  \* the component that runs
          s1, s2, s3, s4, s5, s6, s7, s8, s9, s10, s11, s12, s13, s14, s15, s16, s17
          \* the state of that component

\* The slots from the i-th on, and these slots unused.
From17 == <<s17>>
From16 == <<s16, From17>>
From15 == <<s15, From16>>
From14 == <<s14, From15>>
From13 == <<s13, From14>>
From12 == <<s12, From13>>
From11 == <<s11, From12>>
From10 == <<s10, From11>>
From9 == <<s9, From10>>
From8 == <<s8, From9>>
From7 == <<s7, From8>>
From6 == <<s6, From7>>
From5 == <<s5, From6>>
From4 == <<s4, From5>>
From3 == <<s3, From4>>
From2 == <<s2, From3>>
From1 == <<s1, From2>>

Blank17 == s17 = 0
Blank16 == s16 = 0 /\ Blank17
Blank15 == s15 = 0 /\ Blank16
Blank14 == s14 = 0 /\ Blank15
Blank13 == s13 = 0 /\ Blank14
Blank12 == s12 = 0 /\ Blank13
Blank11 == s11 = 0 /\ Blank12
Blank10 == s10 = 0 /\ Blank11
Blank9 == s9 = 0 /\ Blank10
Blank8 == s8 = 0 /\ Blank9
Blank7 == s7 = 0 /\ Blank8
Blank6 == s6 = 0 /\ Blank7
Blank5 == s5 = 0 /\ Blank6
Blank4 == s4 = 0 /\ Blank5
Blank3 == s3 = 0 /\ Blank4
Blank2 == s2 = 0 /\ Blank3
Blank1 == s1 = 0 /\ Blank2

\* Configuration documents: sound ones, and one for each kind of defect.
Plain == [defect |-> "none", leaves |-> {"d"}, members |-> {"d", "direct"}, use |-> {},
          asText |-> FALSE, targets |-> {"d", "grp"}, sets |-> {}, rprovs |-> {}, pprovs |-> {}]
Subscribed == [Plain EXCEPT !.use = {"p"}, !.pprovs = {"p"}, !.members = {"d", "n"}, !.asText = TRUE,
                             !.sets = {"s"}, !.rprovs = {"s"}]
Dangling == [Plain EXCEPT !.targets = {"x"}]
BadPattern == [Plain EXCEPT !.sets = {"s"}, !.rprovs = {"s"}, !.defect = "pattern"]
BadProtocol == [Plain EXCEPT !.defect = "protocol", !.leaves = {"d", "e"}]
BadUrl == [Subscribed EXCEPT !.defect = "proxyUrl"]
BadInterval == [Plain EXCEPT !.defect = "ruleInterval", !.rprovs = {"s"}]
Documents == {Plain, Subscribed, Dangling, BadPattern, BadProtocol, BadUrl, BadInterval}

MmdbCells == [t : {"str"}, s : {"country", "iso_code", "CN"}] \cup [t : {"map"}, n : {1, 2}]
             \cup [t : {"pointer"}, to : {1, 4}]

FakeIp == INSTANCE FakeIpPool WITH
  Names <- {"a", "b", "c", "lan"}, Filtered <- {"lan"}, Hosted <- {}, PolicyBound <- {},
  Slots <- 2, Ttl <- 1, MaxTime <- 1, MaxClear <- 1,
  now <- s1, fwd <- s2, back <- s3, next <- s4, packet <- s5, reaper <- s6,
  clearing <- s7, clears <- s8, handed <- s9, raced <- s10
ASSUME FakeIpPoolAssumption == FakeIp!PoolAssumption

Config == INSTANCE ConfigPipeline WITH
  Callers <- {"c1", "c2"}, Docs <- Documents, NodesOf <- [p \in {"p"} |-> {"n"}], Group <- "grp",
  Builtins <- {"direct", "reject"}, MaxCalls <- 3, None <- Absent,
  rprovs <- s1, pprovs <- s2, dns <- s3, engine <- s4, lock <- s5, pc <- s6, call <- s7,
  built <- s8, calls <- s9
ASSUME ConfigConfigAssumption == Config!ConfigAssumption

Content == INSTANCE ProviderContent WITH
  Threads <- {"t1", "t2", "t3"}, Documents <- {"d1", "d2", "d3"}, Good <- {"d1", "d2"}, MaxCalls <- 3,
  None <- Absent,
  kind <- s1, cached <- s2, configs <- s3, proxies <- s4, health <- s5, updated <- s6,
  registered <- s7, lock <- s8, thread <- s9, calls <- s10
ASSUME ContentThreadsAssumption == Content!ContentAssumption

Registry == INSTANCE Providers WITH
  Leaves <- {"l1"}, Groups <- {"g1"}, Nodes <- {"n1", "n2"}, HasPath <- FALSE, MaxReloads <- 2,
  MaxRefresh <- 2, NoCache <- Absent,
  conf <- s1, registry <- s2, tags <- s3, loaded <- s4, nodes <- s5, remote <- s6,
  cache <- s7, rpc <- s8, rtodo <- s9, rtags <- s10, upc <- s11, ucur <- s12,
  reloads <- s13, refreshes <- s14, result <- s15, crossed <- s16, fresh <- s17
ASSUME RegistryProvidersAssumption == Registry!ProvidersAssumption

Fetch == INSTANCE HttpFetch WITH
  Origins <- {"o1", "o2"}, Https <- {"o2"}, MaxRedirects <- 2, MaxBody <- 2, MaxHead <- 1,
  None <- Absent,
  url <- s1, hops <- s2, tunnel <- s3, at <- s4, head <- s5, reply <- s6, sent <- s7,
  closed <- s8, body <- s9, result <- s10
ASSUME FetchNoneAssumption == Fetch!FetchAssumption

\* The integers are the boundaries of the encodings' size classes.
Mmdb == INSTANCE MmdbReader WITH
  MaxDepth <- 4, MaxValues <- 12, Records <- {0, 1, 255, 256, 65536, 16777215, 16777216, 268435455},
  Pointers <- {0, 255, 256, 2047, 2048, 2049, 526335, 526336, 526337, 134744063, 134744064, 2147483647},
  Sizes <- {0, 28, 29, 284, 285, 286, 65820, 65821, 65822, 16843036}, Cells <- MmdbCells, Length <- 6,
  job <- s1, answer <- s2

Udp == INSTANCE UdpSessions WITH
  Clients <- {"c1", "c2"}, Addresses <- {"a1", "a2"}, Targets <- {"t1"}, Workers <- {"w1", "w2"},
  Sessions <- {"s1", "s2"}, MaxSessions <- 1, MaxOwed <- 1, None <- Absent,
  outbound <- s1, sink <- s2, address <- s3, stage <- s4, sinks <- s5, target <- s6,
  owed <- s7, table <- s8, live <- s9, job <- s10, crossed <- s11
ASSUME UdpSessionsAssumption == Udp!SessionsAssumption

VUdp == INSTANCE VmessUdp WITH
  Callers <- {"c1", "c2"}, Sessions <- {"s1", "s2"}, MaxCount <- 3, MaxCalls <- 3, None <- Absent,
  table <- s1, fresh <- s2, drawn <- s3, response <- s4, consumed <- s5, holder <- s6,
  asked <- s7, taken <- s8, sent <- s9, stream <- s10, broken <- s11, call <- s12,
  calls <- s13
ASSUME VUdpVmessAssumption == VUdp!VmessAssumption

Mux == INSTANCE MuxStream WITH
  MaxFrames <- 2, MaxExtra <- 1, MaxData <- 2, HeadSize <- 2, Buffer <- 1, MaxWrites <- 1,
  wire <- s1, sent <- s2, closed <- s3, filled <- s4, got <- s5, expected <- s6,
  sizeFilled <- s7, data <- s8, skip <- s9, sawEnd <- s10, out <- s11, result <- s12,
  pending <- s13, written <- s14

Tls == INSTANCE Tls13Client WITH
  Profiles <- {"fingerprint", "reality", "shadowtls"}, Servers <- {"peer", "site"}, MaxOddities <- 1,
  MaxFlight <- 5, MaxRecords <- 3, MaxWire <- 2, Splits <- FALSE, Polls <- TRUE,
  profile <- s1, server <- s2, wire <- s3, back <- s4, client <- s5, srv <- s6, odd <- s7,
  sent <- s8

Crypto == INSTANCE StreamingCrypto WITH
  Hashes <- {"sha1", "sha256", "sha512", "md5", "hmac", "poly1305", "ghash", "blake3"},
  Ciphers <- {"chacha", "salsa", "ctr"}, B <- 4, LenBytes <- 2, ChunkBlocks <- 1, W <- 2, MaxLen <- 21,
  alg <- s1, keyed <- s2, fed <- s3, st <- s4, done <- s5
ASSUME CryptoSizesAssumption == Crypto!SizesAssumption

Stun == INSTANCE NatDiscovery WITH
  Servers <- {"rfc5780", "plain"}, Families <- {"v4", "v6"}, Strides <- {1, 2}, Transmissions <- 2,
  Low <- 4, High <- 11, First <- {8}, Window <- 4,
  env <- s1, mappings <- s2, allowed <- s3, lastPort <- s4, net <- s5, test <- s6,
  sent <- s7, tid <- s8, waiting <- s9, profile <- s10

Punch == INSTANCE HolePunch WITH
  Targets <- [A |-> {"b1", "b2"}, B |-> {"a1", "a2"}], Where <- [A |-> "a1", B |-> "b2"], Rounds <- 2,
  round <- s1, reading <- s2, open <- s3, net <- s4, outcome <- s5, winner <- s6

-----------------------------------------------------------------------------
StateInit ==
  \/ which = "lru" /\ Init /\ Blank1
  \/ which = "fakeip" /\ FakeIp!Init /\ Blank11 /\ cache = Fresh /\ answer = Absent
  \/ which = "config" /\ Config!Init /\ Blank10 /\ cache = Fresh /\ answer = Absent
  \/ which = "content" /\ Content!Init /\ Blank11 /\ cache = Fresh /\ answer = Absent
  \/ which = "providers" /\ Registry!Init /\ cache = Fresh /\ answer = Absent
  \/ which = "fetch" /\ Fetch!Init /\ Blank11 /\ cache = Fresh /\ answer = Absent
  \/ which = "mmdb" /\ Mmdb!Init /\ Blank3 /\ cache = Fresh /\ answer = Absent
  \/ which = "sessions" /\ Udp!Init /\ Blank12 /\ cache = Fresh /\ answer = Absent
  \/ which = "vmessudp" /\ VUdp!Init /\ Blank14 /\ cache = Fresh /\ answer = Absent
  \/ which = "mux" /\ Mux!Init /\ Blank15 /\ cache = Fresh /\ answer = Absent
  \/ which = "tls13" /\ Tls!Init /\ Blank9 /\ cache = Fresh /\ answer = Absent
  \/ which = "crypto" /\ Crypto!Init /\ Blank6 /\ cache = Fresh /\ answer = Absent
  \/ which = "nat" /\ Stun!Init /\ Blank11 /\ cache = Fresh /\ answer = Absent
  \/ which = "punch" /\ Punch!Init /\ Blank7 /\ cache = Fresh /\ answer = Absent

StateNext ==
  \/ which = "lru" /\ Next /\ UNCHANGED <<which, From1>>
  \/ which = "fakeip" /\ FakeIp!Next /\ UNCHANGED <<which, From11, cache, answer>>
  \/ which = "config" /\ Config!Next /\ UNCHANGED <<which, From10, cache, answer>>
  \/ which = "content" /\ Content!Next /\ UNCHANGED <<which, From11, cache, answer>>
  \/ which = "providers" /\ Registry!Next /\ UNCHANGED <<which, cache, answer>>
  \/ which = "fetch" /\ Fetch!Next /\ UNCHANGED <<which, From11, cache, answer>>
  \/ which = "mmdb" /\ Mmdb!Next /\ UNCHANGED <<which, From3, cache, answer>>
  \/ which = "sessions" /\ Udp!Next /\ UNCHANGED <<which, From12, cache, answer>>
  \/ which = "vmessudp" /\ VUdp!Next /\ UNCHANGED <<which, From14, cache, answer>>
  \/ which = "mux" /\ Mux!Next /\ UNCHANGED <<which, From15, cache, answer>>
  \/ which = "tls13" /\ Tls!Next /\ UNCHANGED <<which, From9, cache, answer>>
  \/ which = "crypto" /\ Crypto!Next /\ UNCHANGED <<which, From6, cache, answer>>
  \/ which = "nat" /\ Stun!Next /\ UNCHANGED <<which, From11, cache, answer>>
  \/ which = "punch" /\ Punch!Next /\ UNCHANGED <<which, From7, cache, answer>>

slots == <<which, From1, cache, answer>>

StateSpec == StateInit /\ [][StateNext]_slots

-----------------------------------------------------------------------------
(* The components' properties, each for the behaviours of its component.   *)

\* Nobody is given what is another's: a fake address answered for a name
\* leads a connection to that name alone (netstack/solidtcp/dns.rs), and no
\* UDP association sees the session or the answer of another
\* (engine/outbound/direct.rs, shadowsocks.rs, vmess.rs).
AnswersAreOwn == /\ which = "fakeip" => FakeIp!AnswersAreOwn
                 /\ which = "sessions" => Udp!AnswersAreOwn
                 /\ which = "vmessudp" => VUdp!AnswersAreOwn

\* An installed engine is one document's, and everything its rules send to
\* exists (config, engine/mod.rs, api.rs).
InstalledIsWhole == which = "config" => Config!InstalledIsWhole

\* What racing loads of a provider leave is of one document, and no order of
\* its locks stops every thread (engine/proxy_provider.rs, rule_provider.rs);
\* whatever reloads and refreshes interleave, the outbound registry holds the
\* profile's tags and the provider's, and nothing else (engine/outbound.rs).
ProvidersAreSound == /\ which = "content" => Content!PairIsOne /\ Content!NoStandstill
                     /\ which = "providers" => Registry!RegistryExact

\* A refresh takes nothing of the profile out of the registry.
RefreshSparesProfile ==
  [][which = "providers" /\ Registry!RefreshSync
       => /\ s2 \cap s1 \subseteq s2'    \* registry \cap conf
          /\ s12 \subseteq s2']_slots    \* the refresh's snapshot

\* A fetched body is the asked origin's, within the limits (common/http.rs);
\* a lookup in the country database gives what its writer meant
\* (engine/mmdb.rs); the frames of a Mux stream come out the same however the
\* connection cuts them (engine/outbound/v2ray_mux.rs).
InputsAreRead == /\ which = "fetch" => Fetch!FetchIsSound
                 /\ which = "mmdb" => Mmdb!LookupsAreRight
                 /\ which = "mux" => Mux!MuxInStep

\* A TLS 1.3 client hands out authenticated streams and keeps its keys in
\* step with the server's (protocol/tls13/client.rs); digests and keystreams
\* come out the same however their input is cut into calls (crypto/).
CryptoIsSound == /\ which = "tls13" => Tls!EstablishedIsAuthentic /\ Tls!KeysInStep
                 /\ which = "crypto" => Crypto!DigestIsStandard /\ Crypto!KeystreamInStep

\* What NAT discovery and hole punching conclude is so (nat/).
NatVerdictsHold == /\ which = "nat" => Stun!ProfileIsTrue /\ Stun!PredictionCovers
                   /\ which = "punch" => Punch!WinnerHeardPeer
=============================================================================
