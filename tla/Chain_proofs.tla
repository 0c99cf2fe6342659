---------------------------- MODULE Chain_proofs ----------------------------
(***************************************************************************)
(* OneEngine and FailureSpendsBudget for every budget and every            *)
(* query_timeout, whatever engines there are that keep the promise of      *)
(* Budget.                                                                 *)
(***************************************************************************)
EXTENDS Chain, FiniteSetTheorems, TLAPS

USE ChainAssumption DEF ChainAssumption

\* Where a query stands: with its primary, with its fallback once the primary
\* has used up its budget, or nowhere.
Standing ==
  /\ now \in Nat /\ asked \in Nat /\ chained \in BOOLEAN
  /\ query = "pending" =>
       \/ primary = "pending" /\ fallback = "idle"
       \/ primary = "err" /\ fallback = "pending" /\ chained /\ asked >= MaxWait
  /\ query # "pending" => primary # "pending" /\ fallback # "pending"

\* A query starts with its primary.
LEMMA StandingInitial == Init => Standing
  BY DEF Init, Standing

\* Every step of FallbackResolver and of the timeout keeps it.
LEMMA StandingInductive == Standing /\ [Next]_vars => Standing'
<1> SUFFICES ASSUME Standing, [Next]_vars PROVE Standing'
  OBVIOUS
<1>1. CASE PrimaryAnswers
  BY <1>1 DEF Standing, PrimaryAnswers, P!Answer, config
<1>2. CASE PrimaryGivesUp
  BY <1>2 DEF Standing, PrimaryGivesUp, P!GiveUp, config
<1>3. CASE FallbackAnswers
  BY <1>3 DEF Standing, FallbackAnswers, F!Answer, config
<1>4. CASE FallbackGivesUp
  BY <1>4 DEF Standing, FallbackGivesUp, F!GiveUp, config
<1>5. CASE Timeout
  BY <1>5 DEF Standing, Timeout, P!Abandon, F!Abandon, config
<1>6. CASE Tick
  BY <1>6 DEF Standing, Tick, config
<1>7. CASE UNCHANGED vars
  BY <1>7 DEF Standing, vars, config
<1> QED
  BY <1>1, <1>2, <1>3, <1>4, <1>5, <1>6, <1>7 DEF Next

\* The set that OneEngine counts, in each of the cases of Standing.
LEMMA StandingCounts == Standing => OneEngine
<1> SUFFICES ASSUME Standing PROVE OneEngine
  OBVIOUS
<1> DEFINE Busy == {e \in {<<"primary", primary>>, <<"fallback", fallback>>} : e[2] = "pending"}
<1>1. CASE query # "pending"
  <2>1. Busy = {}
    BY <1>1 DEF Standing
  <2> QED
    BY <1>1, <2>1, FS_EmptySet DEF OneEngine
<1>2. CASE query = "pending" /\ primary = "pending" /\ fallback = "idle"
  <2>1. Busy = {<<"primary", primary>>}
    BY <1>2
  <2> QED
    BY <1>2, <2>1, FS_Singleton, Zenon DEF OneEngine
<1>3. CASE query = "pending" /\ primary = "err" /\ fallback = "pending"
  <2>1. Busy = {<<"fallback", fallback>>}
    BY <1>3
  <2> QED
    BY <1>3, <2>1, FS_Singleton, Zenon DEF OneEngine
<1> QED
  BY <1>1, <1>2, <1>3 DEF Standing

\* FallbackResolver and the timeout around it: a pending query has one engine at
\* work, and a query that is over has none.
THEOREM EnginesInSequence == Spec => []OneEngine
  BY StandingInitial, StandingInductive, StandingCounts, PTL DEF Spec

\* A query fails when query_timeout has passed, or the budget of every engine it
\* was configured with, one after the other, whatever the two are.
THEOREM NoEarlyFailure == Spec => FailureSpendsBudget
<1> DEFINE Fails == query # "failed" /\ query' = "failed"
           Spent == now >= query_timeout \/ now >= (IF chained THEN 2 ELSE 1) * MaxWait
<1>1. Standing /\ [Next]_vars => [Fails => Spent]_vars
  <2> SUFFICES ASSUME Standing, Next, Fails PROVE Spent
    BY DEF vars, config
  <2>1. CASE PrimaryAnswers
    BY <2>1 DEF PrimaryAnswers
  <2>2. CASE PrimaryGivesUp
    BY <2>2 DEF Standing, PrimaryGivesUp, P!GiveUp
  <2>3. CASE FallbackAnswers
    BY <2>3 DEF FallbackAnswers
  <2>4. CASE FallbackGivesUp
    <3>1. fallback = "pending" /\ now - asked >= MaxWait /\ query = "pending"
      BY <2>4 DEF Standing, FallbackGivesUp, F!GiveUp
    <3>2. chained /\ asked >= MaxWait
      BY <3>1 DEF Standing
    <3> QED
      BY <3>1, <3>2 DEF Standing
  <2>5. CASE Timeout
    BY <2>5 DEF Timeout
  <2>6. CASE Tick
    BY <2>6 DEF Tick
  <2> QED
    BY <2>1, <2>2, <2>3, <2>4, <2>5, <2>6 DEF Next
<1>2. Standing /\ [Next]_vars
        => [query # "failed" /\ query' = "failed"
              => now >= query_timeout \/ now >= (IF chained THEN 2 ELSE 1) * MaxWait]_vars
  BY <1>1
<1> QED
  BY <1>2, StandingInitial, StandingInductive, PTL DEF Spec, FailureSpendsBudget
=============================================================================
