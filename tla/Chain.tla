-------------------------------- MODULE Chain --------------------------------
(***************************************************************************)
(* One query on its way upstream: Pipeline::resolve_upstream (pipeline.rs) *)
(* puts query_timeout around the resolver build_pipeline made (lib.rs),    *)
(* which is one retry engine, or a FallbackResolver (upstream/group.rs)    *)
(* over two of them.  The engines appear as the Budget that Hedged is      *)
(* shown to implement.                                                     *)
(***************************************************************************)
EXTENDS Integers, FiniteSets

CONSTANTS
  MaxWait,       \* upstream_timeout_ms, the budget of each engine
  QueryTimeouts, \* values of query_timeout_ms; validate relates it to nothing
  MaxTime        \* bound: the clock of a checked instance stops here

ASSUME ChainAssumption ==
  /\ MaxWait \in Nat /\ QueryTimeouts \subseteq Nat /\ MaxTime \in Nat

VARIABLES
  query_timeout, \* of this configuration
  chained,       \* the configuration has a [[fallback]]
  now,           \* the clock, from the start of the query
  primary,       \* what each engine has told its caller; "idle": not asked
  fallback,
  asked,         \* when the fallback engine was asked
  query          \* what resolve_upstream has returned

config == <<query_timeout, chained>>
vars == <<config, now, primary, fallback, asked, query>>

P == INSTANCE Budget WITH Deadline <- MaxWait, verdict <- primary
F == INSTANCE Budget WITH Deadline <- MaxWait, now <- now - asked, verdict <- fallback

Init ==
  /\ query_timeout \in QueryTimeouts /\ chained \in BOOLEAN
  /\ now = 0 /\ primary = "pending" /\ fallback = "idle" /\ asked = 0
  /\ query = "pending"

PrimaryAnswers ==
  /\ P!Answer
  /\ query' = "ok"
  /\ UNCHANGED <<config, fallback, asked>>

\* Mutant: the primary's error is passed on.
PrimaryGivesUpFinal ==
  /\ P!GiveUp
  /\ query' = "failed"
  /\ UNCHANGED <<config, fallback, asked>>

\* The primary's error: the fallback, where there is one, is asked with a
\* budget of its own.
PrimaryGivesUp ==
  /\ P!GiveUp
  /\ \/ chained /\ fallback' = "pending" /\ asked' = now /\ UNCHANGED query
     \/ ~chained /\ query' = "failed" /\ UNCHANGED <<fallback, asked>>
  /\ UNCHANGED config

FallbackAnswers ==
  /\ UNCHANGED <<config, now, primary, asked>>
  /\ F!Answer
  /\ query' = "ok"

FallbackGivesUp ==
  /\ UNCHANGED <<config, now, primary, asked>>
  /\ F!GiveUp
  /\ query' = "failed"

\* Mutants: the engine is spawned and outlives the timeout; the timeout is
\* put around the primary only.
TimeoutDetached ==
  /\ query = "pending" /\ now >= query_timeout
  /\ query' = "failed"
  /\ UNCHANGED <<config, now, primary, fallback, asked>>
TimeoutPrimary ==
  /\ query = "pending" /\ now >= query_timeout
  /\ query' = "failed"
  /\ UNCHANGED <<config, now, asked, fallback>>
  /\ P!Abandon

\* query_timeout elapses: the future is dropped, and with it the engine that
\* is working on it.
Timeout ==
  /\ query = "pending" /\ now >= query_timeout
  /\ query' = "failed"
  /\ UNCHANGED <<config, now, asked>>
  /\ \/ UNCHANGED fallback /\ P!Abandon
     \/ UNCHANGED primary /\ F!Abandon

Tick == now < MaxTime /\ now' = now + 1
        /\ UNCHANGED <<config, primary, fallback, asked, query>>

Next == \/ PrimaryAnswers \/ PrimaryGivesUp \/ FallbackAnswers \/ FallbackGivesUp
        \/ Timeout \/ Tick

Spec == Init /\ [][Next]_vars

\* The clock runs and the timeout's timer is polled.  Nothing is assumed of
\* the engines.
FairSpec == Spec /\ WF_vars(Tick) /\ WF_vars(Timeout)
-----------------------------------------------------------------------------
(* Properties                                                              *)

\* A pending query has exactly one engine working for it, and a query that is
\* over has none: never both at once, none left behind by the timeout
\* (FallbackResolver asks in sequence; timeout owns the future it wraps).
OneEngine ==
  Cardinality({e \in {<<"primary", primary>>, <<"fallback", fallback>>} : e[2] = "pending"})
    = IF query = "pending" THEN 1 ELSE 0

\* A query fails only when all the time it was promised is used up: its
\* query_timeout, or the budgets of all the engines configured, one after the
\* other ("a group only fails once its budget expires", lib.rs:58).
FailureSpendsBudget ==
  [][query # "failed" /\ query' = "failed"
       => now >= query_timeout \/ now >= (IF chained THEN 2 ELSE 1) * MaxWait]_vars

\* "Total per-query timeout (ms), wrapping the entire upstream + fallback
\* chain" (README.md:92): the query ends, even if an engine never does.
QueryEnds == query = "pending" ~> query # "pending"
=============================================================================
