------------------------------ MODULE Bootstrap ------------------------------
(***************************************************************************)
(* Names resolved while the process starts (bootstrap.rs): the bootstrap   *)
(* servers are asked one after the other, by plain DNS, DNS over TLS or    *)
(* DNS over HTTPS (upstream/plain.rs, dot.rs and doh.rs), the first reply  *)
(* counts, and a lookup is one such query for each of its record types.    *)
(*                                                                         *)
(* Addresses are numbers in the order of IpAddr: every IPv4 address comes  *)
(* before every IPv6 address.                                              *)
(***************************************************************************)
EXTENDS Integers, Sequences, FiniteSetsExt

CONSTANTS
  V4, V6,    \* addresses a name may have
  Foreign,   \* addresses in replies to other queries
  Configs    \* configurations considered (Startup)

ASSUME BootstrapAssumption ==
  /\ V4 \cup V6 \cup Foreign \subseteq Nat /\ IsFiniteSet(V4 \cup V6)
  /\ \A a \in V4, b \in V6 : a < b
  /\ (V4 \cup V6) \cap Foreign = {}

VARIABLES
  config,    \* the configuration
  lookup     \* the lookup in progress

\* The steps of one exchange, each of which waits for the other side.
PlainExchange == <<"send", "receive">>
DotExchange == <<"connect", "handshake", "write", "length", "body">>
\* The inside of a DoH request is DohConn's business.
Stages(kind) ==
  CASE kind = "plain" -> PlainExchange
    [] kind = "dot" -> DotExchange
    [] kind = "doh" -> <<"request">>

NoLookup == [types |-> <<>>, at |-> 1, stage |-> 1, ips |-> {}, ech |-> "none"]
Lookup(types) == [NoLookup EXCEPT !.types = types]

InLookup == lookup.types # <<>>
Server == config.bootstrap[lookup.at]
LastStage == lookup.stage = Len(Stages(Server.kind))

\* What a message brings: records of the type asked for, or those of another
\* answer.
Replies(type) ==
  CASE type = "A" -> [own : {TRUE}, ips : SUBSET V4, ech : {"none"}]
    [] type = "AAAA" -> [own : {TRUE}, ips : SUBSET V6, ech : {"none"}]
    [] type = "HTTPS" -> [own : {TRUE}, ips : {{}}, ech : {"none", "good", "unusable"}]
Strays == [own : {FALSE}, ips : {Foreign}, ech : {"none"}]

\* The query is over, and with it one type of the lookup; it may have failed,
\* which resolve_ips and build_member put up with.
QueryOver(ips, ech) ==
  lookup' = [types |-> Tail(lookup.types), at |-> 1, stage |-> 1,
             ips |-> lookup.ips \cup ips, ech |-> ech]

\* query: on to the next server.
NextServer ==
  IF lookup.at < Len(config.bootstrap)
  THEN lookup' = [lookup EXCEPT !.at = @ + 1, !.stage = 1]
  ELSE QueryOver({}, "none")

\* A step of the exchange is done.
Advance ==
  /\ InLookup /\ ~LastStage
  /\ lookup' = [lookup EXCEPT !.stage = @ + 1]
  /\ UNCHANGED config

\* Mutant: the id of the message is not compared.
ReplyArrivesUnchecked(m) ==
  /\ InLookup /\ LastStage
  /\ QueryOver(m.ips, m.ech)
  /\ UNCHANGED config

\* A message arrives that can be decoded.  Any response code will do.
ReplyArrives(m) ==
  /\ InLookup /\ LastStage
  /\ IF m.own THEN QueryOver(m.ips, m.ech) ELSE NextServer
  /\ UNCHANGED config

\* A step fails or what arrives cannot be decoded, or the exchange takes more
\* than its five seconds.
ExchangeFails == InLookup /\ NextServer /\ UNCHANGED config

BootstrapStep ==
  \/ Advance \/ ExchangeFails
  \/ InLookup /\ \E m \in Replies(Head(lookup.types)) \cup Strays : ReplyArrives(m)
-----------------------------------------------------------------------------
(* The order of addresses                                                  *)

\* The addresses of one family, in the order they have.
Only(family, ips) ==
  LET kept[n \in 0..Len(ips)] ==
        IF n = 0 THEN <<>>
        ELSE IF ips[n] \in family THEN Append(kept[n - 1], ips[n]) ELSE kept[n - 1]
  IN  kept[Len(ips)]

\* A stable sort: the preferred family first.
sort_by_family(ips, prefer_ipv6) ==
  IF prefer_ipv6 THEN Only(V6, ips) \o Only(V4, ips) ELSE Only(V4, ips) \o Only(V6, ips)

\* A BTreeSet, from its first element to its last.
Ascending(set) ==
  CHOOSE s \in [1..Cardinality(set) -> set] : \A i, j \in DOMAIN s : i < j => s[i] < s[j]

\* resolve_ips, once its queries are over: none is an error.
resolve_ips == sort_by_family(Ascending(lookup.ips), config.prefer_ipv6)
=============================================================================
