-------------------------------- MODULE Rules --------------------------------
(***************************************************************************)
(* Local answers: the ad blocker's rule set, loaded from several sources   *)
(* and swapped as a whole (filter.rs), and the custom hosts (hosts.rs).    *)
(* A name is the sequence of its normalised labels, most specific first; a *)
(* line of a rule source is its kind and the domain it names.              *)
(***************************************************************************)
EXTENDS Integers, Sequences

CONSTANTS
  Sources,     \* adblock.rule_sources
  Contents,    \* [Sources -> what the source may hold, a set of sets of lines]
  Allowlist,   \* adblock.allowlist, a set of names
  Exact,       \* the names of the hosts entries
  Wildcard,    \* the base names of the "*." entries
  MaxReloads   \* bound: refreshes; none without a source with an interval

ASSUME RulesAssumption ==
  /\ \A s \in Sources : \A text \in Contents[s] : \A l \in text :
       l.kind \in {"exception", "block", "host", "plain", "other"}
  /\ MaxReloads \in Nat

VARIABLES
  rules,     \* the RuleSet behind the ArcSwap
  reloads    \* refreshes so far

ruleVars == <<rules, reloads>>

\* A rule must name a domain with a dot in it.
valid_domain(d) == Len(d) > 1

parse_rules(text) ==
  [blocked |-> {l.domain : l \in {k \in text : /\ k.kind \in {"block", "host", "plain"}
                                               /\ valid_domain(k.domain)}},
   exceptions |-> {l.domain : l \in {k \in text : /\ k.kind = "exception"
                                                  /\ valid_domain(k.domain)}}]

\* The rule sets a load may yield: each source has one of its contents, or it
\* fails and is skipped.
load_sources ==
  LET failed == {}
      texts == {fetched \in [Sources -> {failed} \cup UNION {Contents[s] : s \in Sources}] :
                  \A s \in Sources : fetched[s] \in Contents[s] \cup {failed}}
  IN  {[blocked |-> UNION {parse_rules(fetched[s]).blocked : s \in Sources},
        exceptions |-> UNION {parse_rules(fetched[s]).exceptions : s \in Sources}] :
         fetched \in texts}

\* The first load is stored whatever it yields.
RulesInit == rules \in load_sources /\ reloads = 0

\* One round of the updater: everything is loaded again; a set without a
\* blocking rule is thrown away.
Refresh ==
  /\ reloads < MaxReloads /\ reloads' = reloads + 1
  /\ \E loaded \in load_sources :
       rules' = IF loaded.blocked = {} THEN rules ELSE loaded
-----------------------------------------------------------------------------
\* The name and the domains above it.
Candidates(name) == {SubSeq(name, i, Len(name)) : i \in DOMAIN name}

\* The walk up the name: exemptions of any level win over rules of any level.
is_blocked(name) ==
  /\ Candidates(name) \cap (Allowlist \cup rules.exceptions) = {}
  /\ Candidates(name) \cap rules.blocked # {}

\* HostsMap::find: the name itself, or a wildcard of a domain above it.
find(name) ==
  name \in Exact \/ Candidates(name) \cap (Wildcard \ {name}) # {}
=============================================================================
