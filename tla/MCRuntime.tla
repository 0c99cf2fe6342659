------------------------------ MODULE MCRuntime ------------------------------
(* An instance of LifeCycle for TLC.                                       *)
EXTENDS LifeCycle

Up(kind, url, at, ip, form, ech) ==
  [kind |-> kind, url |-> url, at |-> at, ip |-> ip, form |-> form, ech |-> ech]
plain == Up("plain", "", 4, TRUE, "good", "none")
dot == Up("dot", "dot", 6, TRUE, "good", "none")
broken == Up("dot", "dot:x", 4, TRUE, "malformed", "none")
doh(url, ip, ech) == Up("doh", url, 4, ip, "good", ech)

Source(kind, scheme, host, interval) ==
  [kind |-> kind, url |-> [scheme |-> scheme, host |-> host], interval |-> interval]

Conf == [upstream |-> <<plain>>, fallback |-> <<>>, bootstrap |-> <<>>, rule_sources |-> <<>>,
         fixed_subnet |-> NoSubnet, database_path |-> TRUE, retention_days |-> 1,
         prefer_ipv6 |-> FALSE]

\* Configurations that are refused; upstreams that cannot be built; subnets;
\* upstreams and rules that need the bootstrap servers, and rules that do not.
MCConfigs ==
  {[Conf EXCEPT !.upstream = <<>>], [Conf EXCEPT !.database_path = FALSE],
   [Conf EXCEPT !.retention_days = 3], [Conf EXCEPT !.bootstrap = <<doh("a", FALSE, "none")>>]}
  \cup
  {[Conf EXCEPT !.bootstrap = <<broken>>], [Conf EXCEPT !.upstream = <<plain, broken>>],
   [Conf EXCEPT !.upstream = <<doh("a", FALSE, "none")>>],
   [Conf EXCEPT !.upstream = <<Up("doh", "a", 4, TRUE, "unfit", "none")>>, !.bootstrap = <<plain>>],
   [Conf EXCEPT !.upstream = <<doh("a", TRUE, "undecodable")>>],
   [Conf EXCEPT !.upstream = <<dot, doh("a", TRUE, "good")>>,
                !.fallback = <<doh("b", TRUE, "unusable")>>]}
  \cup
  {[Conf EXCEPT !.fixed_subnet = s] :
     s \in [family : {"v4"}, addr : {{0, 2}, {0, 1, 2}}, prefix : 0..4] \cup
           [family : {"v6"}, addr : {{0, 2, 3}}, prefix : 0..5]}
  \cup
  {[Conf EXCEPT !.upstream = <<doh("a", FALSE, "good"), doh("b", TRUE, "none")>>,
                !.fallback = <<doh("c", FALSE, "none"), dot>>,
                !.bootstrap = <<plain, dot>>, !.prefer_ipv6 = TRUE],
   [Conf EXCEPT !.bootstrap = <<doh("a", TRUE, "none")>>,
                !.rule_sources = <<Source("url", "https", "named", TRUE),
                                   Source("path", "other", "named", FALSE),
                                   Source("neither", "other", "named", FALSE)>>],
   [Conf EXCEPT !.rule_sources = <<Source("url", "http", "literal", FALSE)>>]}

MCUrls == {[scheme |-> "https", host |-> "named"], [scheme |-> "other", host |-> "named"]}

MCBits == [v4 |-> 3, v6 |-> 4]
=============================================================================
