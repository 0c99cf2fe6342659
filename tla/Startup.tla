------------------------------- MODULE Startup -------------------------------
(***************************************************************************)
(* From main to a runtime that serves: the configuration (config.rs,       *)
(* main.rs), the store and its worker and the ports (build_runtime,        *)
(* dashboard/mod.rs), and between them the pipeline (build_pipeline,       *)
(* lib.rs): the bootstrap servers, the rules, and the members of the       *)
(* upstream groups, which DoH upstreams need the bootstrap servers for.    *)
(*                                                                         *)
(* An upstream is [kind, url, at, ip, form, ech]: its domain or URL; its   *)
(* address and whether that is given; whether its domain or URL is good,   *)
(* malformed, or a URL that parses but is unfit for DoH; and its ECH list. *)
(***************************************************************************)
EXTENDS Fetch, Ecs

CONSTANT MAX_RETENTION_DAYS   \* 9999

UpstreamConfig ==
  [kind : {"plain", "dot", "doh"}, url : STRING, at : V4 \cup V6, ip : BOOLEAN,
   form : {"good", "malformed", "unfit"},
   ech : {"none", "good", "unusable", "undecodable"}]
RuleSource ==
  [kind : {"path", "url", "neither"}, interval : BOOLEAN,
   url : [scheme : {"http", "https", "other"}, host : {"named", "literal"}]]
Config ==
  [upstream : Seq(UpstreamConfig), fallback : Seq(UpstreamConfig),
   bootstrap : Seq(UpstreamConfig), rule_sources : Seq(RuleSource),
   fixed_subnet : Subnet, database_path : BOOLEAN, retention_days : Nat, prefer_ipv6 : BOOLEAN]

ASSUME StartupAssumption ==
  /\ \A c \in Configs : c \in Config
  /\ MAX_RETENTION_DAYS \in Nat

VARIABLES
  boot,       \* the step of build_runtime
  building,   \* what the member being built waits for
  ips,        \* its addresses
  group,      \* the members of the group being built
  metrics,    \* the members registered so far: [group, id, name, ips, ech]
  recorder,   \* the store's worker: "none", "running" or "told" to stop
  http_port, dns_port,   \* "free", "taken" by somebody else, or "own"
  updater,    \* whether the rules will be refreshed
  subnet      \* the subnet to send along

buildVars == <<building, ips, group, metrics, subnet>>
hostVars == <<recorder, http_port, dns_port, updater>>
startVars == <<config, lookup, fetchVars, boot, buildVars, hostVars>>

StartInit ==
  /\ config \in Configs /\ lookup = NoLookup /\ FetchInit
  /\ boot = "config" /\ building = "none" /\ ips = <<>> /\ group = <<>> /\ metrics = <<>>
  /\ subnet = NoSubnet /\ recorder = "none" /\ updater = FALSE
  /\ http_port \in {"free", "taken"} /\ dns_port \in {"free", "taken"}
-----------------------------------------------------------------------------
(* main and build_runtime                                                  *)

\* Config::validate.
validate ==
  /\ config.upstream # <<>> /\ config.database_path
  /\ config.retention_days <= MAX_RETENTION_DAYS
  /\ \A i \in DOMAIN config.bootstrap :
       config.bootstrap[i].kind = "doh" => config.bootstrap[i].ip

\* The file is read and parsed, the log filter and the runtime are built.
LoadConfig ==
  /\ boot = "config"
  /\ \/ validate /\ boot' = "store"
     \/ boot' = "failed"
  /\ UNCHANGED <<config, lookup, fetchVars, buildVars, hostVars>>

\* Store::open and cleanup (Schema).
OpenStore ==
  /\ boot = "store"
  /\ boot' \in {"worker", "failed"}
  /\ UNCHANGED <<config, lookup, fetchVars, buildVars, hostVars>>

StartWorker ==
  /\ boot = "worker"
  /\ \/ boot' = "bootstrap" /\ recorder' = "running"
     \/ boot' = "failed" /\ UNCHANGED recorder
  /\ UNCHANGED <<config, lookup, fetchVars, buildVars, http_port, dns_port, updater>>

\* An error once the worker runs: shutdown_worker, and what was built is dropped.
Abort ==
  /\ boot' = "failed" /\ recorder' = "told"
  /\ building' = "none" /\ ips' = <<>> /\ group' = <<>> /\ metrics' = <<>>
  /\ subnet' = NoSubnet /\ lookup' = NoLookup
  /\ http_port' = IF http_port = "own" THEN "free" ELSE http_port
  /\ UNCHANGED <<config, fetchVars, dns_port, updater>>

\* Bootstrap::from_config.
BuildBootstrap ==
  /\ boot = "bootstrap"
  /\ IF \E i \in DOMAIN config.bootstrap : config.bootstrap[i].form # "good" THEN Abort
     ELSE boot' = "rules" /\ UNCHANGED <<config, lookup, fetchVars, buildVars, hostVars>>

BindHttp ==
  /\ boot = "http"
  /\ IF http_port = "taken" THEN Abort
     ELSE /\ boot' = "dns" /\ http_port' = "own"
          /\ UNCHANGED <<config, lookup, fetchVars, buildVars, recorder, dns_port, updater>>

BindDns ==
  /\ boot = "dns"
  /\ IF dns_port = "taken" THEN Abort
     ELSE /\ boot' = "built" /\ dns_port' = "own"
          /\ UNCHANGED <<config, lookup, fetchVars, buildVars, recorder, http_port, updater>>
-----------------------------------------------------------------------------
(* build_pipeline                                                          *)

\* load_sources has returned; spawn_updater; subnet_from_config.
RulesLoaded ==
  /\ boot = "rules" /\ ~Loading
  /\ boot' = "primary"
  /\ updater' = \E i \in DOMAIN config.rule_sources :
                  config.rule_sources[i].kind = "url" /\ config.rule_sources[i].interval
  /\ subnet' = subnet_from_config(config.fixed_subnet)
  /\ UNCHANGED <<config, lookup, fetchVars, building, ips, group, metrics, recorder, http_port,
                 dns_port>>

InGroup == boot \in {"primary", "fallback"}
Entries == IF boot = "primary" THEN config.upstream ELSE config.fallback
Entry == Entries[Len(group) + 1]
Unbuilt == InGroup /\ Len(group) < Len(Entries)

Push(m) ==
  /\ group' = Append(group, m) /\ building' = "none" /\ ips' = <<>> /\ lookup' = NoLookup
  /\ UNCHANGED <<config, fetchVars, boot, metrics, subnet, hostVars>>

Wait(for, addresses, types) ==
  /\ building' = for /\ ips' = addresses
  /\ lookup' = IF types = <<>> THEN NoLookup ELSE Lookup(types)
  /\ UNCHANGED <<config, fetchVars, boot, group, metrics, subnet, hostVars>>

\* The name a member is shown by: its address too, unless it has to be looked up.
name(u) ==
  [kind |-> u.kind, url |-> u.url, at |-> IF u.kind = "doh" /\ ~u.ip THEN <<>> ELSE <<u.at>>]

\* build_member: a plain or DoT upstream is complete; a DoH upstream has its
\* address or asks for it.
BuildMember ==
  /\ Unbuilt /\ building = "none"
  /\ IF Entry.form = "malformed" THEN Abort
     ELSE IF Entry.kind # "doh"
     THEN Push([name |-> name(Entry), ips |-> <<Entry.at>>, ech |-> "none"])
     ELSE IF Entry.ip THEN Wait("ech", <<Entry.at>>, <<>>)
     ELSE IF config.bootstrap = <<>> THEN Abort
     ELSE Wait("addresses", <<>>, <<"A", "AAAA">>)

AddressesKnown ==
  /\ Unbuilt /\ building = "addresses" /\ ~InLookup
  /\ IF lookup.ips = {} THEN Abort ELSE Wait("ech", resolve_ips, <<>>)

\* The configured ECH is decoded, or the server's is asked for.
FindEch ==
  /\ Unbuilt /\ building = "ech"
  /\ IF Entry.ech = "undecodable" THEN Abort
     ELSE IF Entry.ech = "none" /\ config.bootstrap # <<>>
     THEN Wait("https", ips, <<"HTTPS">>)
     ELSE Wait("resolver", ips, <<>>)

\* An ECH list may be decoded and still be of no use.
client_config(ech) == ech # "unusable"

\* DohResolver::new, with the configuration's ECH or what fetch_ech has
\* returned.
NewDoh ==
  LET ech == IF building = "https" THEN lookup.ech ELSE Entry.ech
  IN  /\ Unbuilt /\ building \in {"https", "resolver"} /\ ~InLookup
      /\ IF Entry.form = "unfit" \/ ~client_config(ech) THEN Abort
         ELSE Push([name |-> name(Entry), ips |-> sort_by_family(ips, config.prefer_ipv6),
                    ech |-> ech])

\* Mutant: the members are taken from the end of their list.
RegisteredFromBack(kind) ==
  [i \in DOMAIN group |->
     LET m == group[Len(group) + 1 - i]
     IN  [group |-> kind, id |-> <<kind, i - 1>>, name |-> m.name, ips |-> m.ips, ech |-> m.ech]]

\* UpstreamMetricsBuilder::register, for the members of a group in order: the id
\* is the group's name and the member's place in it.
Registered(kind) ==
  [i \in DOMAIN group |->
     [group |-> kind, id |-> <<kind, i - 1>>, name |-> group[i].name, ips |-> group[i].ips,
      ech |-> group[i].ech]]

\* build_group returns; there is an engine for the fallback only if it has
\* members.
GroupBuilt ==
  /\ InGroup /\ ~Unbuilt
  /\ IF group = <<>> THEN Abort
     ELSE /\ metrics' = metrics \o Registered(boot) /\ group' = <<>>
          /\ boot' = IF boot = "primary" /\ config.fallback # <<>> THEN "fallback" ELSE "http"
          /\ UNCHANGED <<config, lookup, fetchVars, building, ips, subnet, hostVars>>
-----------------------------------------------------------------------------
OwnStep ==
  \/ LoadConfig \/ OpenStore \/ StartWorker \/ BuildBootstrap \/ RulesLoaded
  \/ BuildMember \/ AddressesKnown \/ FindEch \/ NewDoh \/ GroupBuilt \/ BindHttp \/ BindDns

Loads(A) == boot = "rules" /\ A /\ UNCHANGED <<boot, buildVars, hostVars>>
Looks(A) == A /\ UNCHANGED <<fetchVars, boot, buildVars, hostVars>>

StartNext == OwnStep \/ Loads(FetchStep) \/ Looks(BootstrapStep)

StartSpec == StartInit /\ [][StartNext]_startVars
-----------------------------------------------------------------------------
(* Properties                                                              *)

\* A member is its entry's: it has the entry's name, the address and the ECH list
\* the entry gives, and no ECH list without DoH.
Fits(m, u) ==
  /\ m.name = name(u)
  /\ (u.kind # "doh" \/ u.ip) => m.ips = <<u.at>>
  /\ u.kind # "doh" => m.ech = "none"
  /\ u.kind = "doh" /\ u.ech # "none" => m.ech = u.ech

\* What is served is what is configured: every upstream and then every fallback,
\* each in its entry's place and under an id of its own, with the address and the
\* ECH list the entry gives; each with addresses, the preferred family first, and
\* none that is not the name's own; the subnet with the bits of its prefix and
\* no others, if it is one; and nothing is served without the store's worker
\* (build_pipeline, build_runtime; "if database initialization fails, ...
\* the DNS service does not start either", README.md:63).
BuiltAsConfigured ==
  boot = "built" =>
    /\ recorder = "running" /\ http_port = "own" /\ dns_port = "own"
    /\ Len(metrics) = Len(config.upstream) + Len(config.fallback)
    /\ \A i, j \in DOMAIN metrics : i # j => metrics[i].id # metrics[j].id
    /\ \A i \in DOMAIN metrics :
         LET m == metrics[i]
         IN  /\ m.group = IF i <= Len(config.upstream) THEN "primary" ELSE "fallback"
             /\ Fits(m, (config.upstream \o config.fallback)[i])
             /\ m.ips # <<>> /\ Range(m.ips) \subseteq V4 \cup V6
             /\ \A k, l \in DOMAIN m.ips :
                  (m.ips[k] \in V6) = config.prefer_ipv6 /\ (m.ips[l] \in V6) # config.prefer_ipv6
                    => k < l
    /\ LET s == config.fixed_subnet
       IN  subnet = IF s.family # "none" /\ s.prefix <= Bits[s.family] THEN Network(s)
                    ELSE NoSubnet

\* A start comes to an end, whatever the bootstrap servers and the servers of
\* rules do or never do: with a runtime, or with the worker told to stop and no
\* port kept (the timeouts of load_sources and of each exchange, and the error
\* paths of build_runtime).
StartupEnds ==
  <>(\/ boot \in {"built", "serving"}
     \/ boot = "failed" /\ recorder # "running" /\ "own" \notin {http_port, dns_port})
=============================================================================
