--------------------------- MODULE Hedged_proofs ---------------------------
(***************************************************************************)
(* The safety properties of Hedged, for every number of members and of     *)
(* attempts in flight, every budget, interval and floor.                   *)
(***************************************************************************)
EXTENDS Hedged, FiniteSetTheorems, TLAPS

\* Recording one more verdict keeps the table of a statistic a table of
\* counts (record_success, record_soft_fail, record_timeout in stats.rs).
LEMMA CountUp ==
  ASSUME NEW f \in [Members -> Nat], NEW i
  PROVE  [f EXCEPT ![i] = @ + 1] \in [Members -> Nat]
<1>1. CASE i \in Members
  <2>1. f[i] + 1 \in Nat
    BY <1>1
  <2> QED
    BY <2>1, Zenon
<1>2. CASE i \notin Members
  <2>1. [f EXCEPT ![i] = @ + 1] = f
    BY <1>2
  <2> QED
    BY <2>1, Zenon
<1> QED
  BY <1>1, <1>2

\* Every step of the engine and of its tasks keeps the variables in their
\* types; in_flight -= 1 in the join branch never wraps (hedged.rs).
THEOREM TypeCorrect == Spec => []TypeOK
<1> USE HedgedAssumption DEF HedgedAssumption
<1>1. Init => TypeOK
  <2> SUFFICES ASSUME Init PROVE TypeOK
    OBVIOUS
  <2>1. Zero \in [Members -> Nat]
    BY DEF Zero
  <2>2. PICK s \in Slots : /\ attempts = {s}
                          /\ pc = [t \in Slots |-> IF t = s THEN "queued" ELSE "free"]
    BY DEF Init
  <2>3. pc \in [Slots -> TaskStates] /\ attempts \subseteq Slots
    BY <2>2 DEF TaskStates, Live, Finished
  <2> QED
    BY <2>1, <2>3, Zenon DEF Init, TypeOK, EngineStates
<1>2. TypeOK /\ [Next]_vars => TypeOK'
  <2> SUFFICES ASSUME TypeOK, [Next]_vars PROVE TypeOK'
    OBVIOUS
  <2> interval \in Nat
    BY DEF TypeOK
  <2>1. ASSUME NEW s \in Slots, JoinOk(s) PROVE TypeOK'
    BY <2>1 DEF TypeOK, JoinOk, JoinReady, timers, stats, EngineStates, TaskStates, Live,
         Finished
  <2>2. ASSUME NEW s \in Slots, JoinErr(s) PROVE TypeOK'
    <3>1. Later(now, last_spawn + RETRY_FLOOR) \in Nat
      BY DEF TypeOK, Later
    <3> QED
      BY <2>2, <3>1 DEF TypeOK, JoinErr, JoinErrWith, JoinReady, stats, EngineStates,
           TaskStates, Live, Finished
  <2>3. ASSUME NEW s \in Slots, Reap(s) PROVE TypeOK'
    BY <2>3 DEF TypeOK, Reap, timers, stats, EngineStates, TaskStates, Live, Finished
  <2>4. CASE Expire
    BY <2>4 DEF TypeOK, Expire, timers, tasks, stats, EngineStates
  <2>5. CASE Hedge
    BY <2>5 DEF TypeOK, Hedge, Spawn, tasks, stats, TaskStates, Live, Finished
  <2>6. CASE Retry
    BY <2>6 DEF TypeOK, Retry, Spawn, stats, TaskStates, Live, Finished
  <2>7. CASE Return
    BY <2>7 DEF TypeOK, Return, timers, tasks, stats, EngineStates
  <2>8. CASE DropFuture
    BY <2>8 DEF TypeOK, DropFuture, timers, tasks, stats, EngineStates
  <2>9. CASE Tick
    BY <2>9 DEF TypeOK, Tick, timers, tasks, stats
  <2>10. ASSUME NEW s \in Slots, Start(s) PROVE TypeOK'
    <3>1. PICK m \in Members : Try(s, m)
      BY <2>10 DEF Start
    <3> QED
      BY <2>10, <3>1 DEF TypeOK, Start, Try, timers, TaskStates, Live, Finished
  <2>11. ASSUME NEW s \in Slots, MemberOk(s) PROVE TypeOK'
    BY <2>11, CountUp DEF TypeOK, MemberOk, End, timers, TaskStates, Live, Finished
  <2>12. ASSUME NEW s \in Slots, MemberErr(s) PROVE TypeOK'
    <3>1. CASE MayTry(s) /\ \E m \in Members \ tried[s] : Try(s, m)
      <4>1. PICK m \in Members : Try(s, m)
        BY <3>1
      <4> QED
        BY <2>12, <4>1, CountUp DEF TypeOK, MemberErr, Try, timers, TaskStates, Live, Finished
    <3>2. CASE ~MayTry(s) /\ End(s, "err")
      BY <2>12, <3>2, CountUp DEF TypeOK, MemberErr, End, timers, TaskStates, Live, Finished
    <3> QED
      BY <2>12, <3>1, <3>2 DEF MemberErr
  <2>13. ASSUME NEW s \in Slots, Cancel(s) PROVE TypeOK'
    BY <2>13 DEF TypeOK, Cancel, DropGuard, End, timers, TaskStates, Live, Finished
  <2>14. ASSUME NEW s \in Slots, Panic(s) PROVE TypeOK'
    BY <2>14 DEF TypeOK, Panic, DropGuard, End, timers, TaskStates, Live, Finished
  <2>15. CASE UNCHANGED vars
    BY <2>15 DEF TypeOK, vars, timers, tasks, stats
  <2> QED
    BY <2>1, <2>2, <2>3, <2>4, <2>5, <2>6, <2>7, <2>8, <2>9, <2>10, <2>11, <2>12, <2>13,
       <2>14, <2>15 DEF Next, EngineStep, TaskStep
<1> QED
  BY <1>1, <1>2, PTL DEF Spec
-----------------------------------------------------------------------------
\* The inductive invariant behind the others: the JoinSet holds exactly the
\* tasks not joined, the count follows it while the loop runs, the flag is
\* raised only by a win, and a drained engine waits for the floor.
Bookkeeping ==
  /\ engine \in {"running", "won", "expired"} => attempts = {s \in Slots : pc[s] # "free"}
  /\ engine \in {"ok", "err"} => attempts = {} /\ \A s \in Slots : pc[s] = "free"
  /\ engine = "running" => /\ in_flight = Cardinality(attempts)
                           /\ in_flight <= max_in_flight
                           /\ in_flight = 0 => retry_at >= last_spawn + RETRY_FLOOR
  /\ engine \in {"expired", "err"} => now >= Deadline
  /\ succeeded => engine \in {"won", "ok", "dropped"}
  /\ answered # None => succeeded
  /\ ~succeeded => waived = Zero
  /\ \A s \in Slots : pc[s] \in {"trying", "ok"} => current[s] \in Members

\* The engine's and the tasks' steps keep the bookkeeping exact.
LEMMA BookkeepingInductive ==
  ASSUME TypeOK, Bookkeeping, [Next]_vars
  PROVE  Bookkeeping'
<1> USE HedgedAssumption DEF HedgedAssumption
<1>0. IsFiniteSet(attempts)
  BY FS_Subset DEF TypeOK
<1>a. max_in_flight \in Nat \ {0}
  BY DEF max_in_flight
<1>1. ASSUME NEW s \in Slots, JoinOk(s) PROVE Bookkeeping'
  BY <1>1 DEF Bookkeeping, TypeOK, JoinOk, timers, stats, Deadline, TaskStates, Live, Finished
<1>2. ASSUME NEW s \in Slots, JoinErr(s) PROVE Bookkeeping'
  <2>1. Cardinality(attempts \ {s}) = in_flight - 1 /\ in_flight > 0
    BY <1>2, <1>0, FS_RemoveElement, ZenonT(30) DEF Bookkeeping, JoinErr, JoinErrWith, JoinReady
  <2>2. Later(now, last_spawn + RETRY_FLOOR) >= last_spawn + RETRY_FLOOR
    BY DEF Later, TypeOK
  <2> QED
    BY <1>2, <1>a, <2>1, <2>2 DEF Bookkeeping, TypeOK, JoinErr, JoinErrWith, max_in_flight,
         stats, TaskStates, Live, Finished
<1>3. ASSUME NEW s \in Slots, Reap(s) PROVE Bookkeeping'
  BY <1>3 DEF Bookkeeping, TypeOK, Reap, timers, stats, Deadline, TaskStates, Live, Finished
<1>4. CASE Expire
  BY <1>4 DEF Bookkeeping, TypeOK, Expire, DeadlineReady, Deadline, timers, tasks, stats
<1>b. ASSUME Spawn, engine = "running", engine' = engine, in_flight < max_in_flight,
             UNCHANGED <<interval, now, succeeded, answered, retry_at, waived>>
      PROVE  Bookkeeping'
  <2>1. PICK s \in Slots :
          /\ pc[s] = "free"
          /\ pc' = [pc EXCEPT ![s] = "queued"]
          /\ current' = [current EXCEPT ![s] = None]
          /\ attempts' = attempts \cup {s}
          /\ in_flight' = in_flight + 1
    BY <1>b, Zenon DEF Spawn
  <2>2. Cardinality(attempts') = in_flight + 1
    BY <1>0, <1>b, <2>1, FS_AddElement, Zenon DEF Bookkeeping
  <2> QED
    BY <1>a, <1>b, <2>1, <2>2 DEF Bookkeeping, TypeOK, max_in_flight
<1>5. CASE Hedge
  <2>1. CASE in_flight < max_in_flight /\ Spawn
    BY <1>5, <1>b, <2>1 DEF Hedge, stats
  <2>2. CASE in_flight >= max_in_flight /\ UNCHANGED <<tasks, attempts, in_flight, last_spawn>>
    BY <1>5, <2>2 DEF Bookkeeping, Hedge, tasks, stats, max_in_flight
  <2> QED
    BY <1>5, <2>1, <2>2 DEF Hedge
<1>6. CASE Retry
  BY <1>6, <1>a, <1>b DEF Retry, RetryReady, stats
<1>7. CASE Return
  BY <1>7 DEF Bookkeeping, TypeOK, Return, Deadline, timers, tasks, stats
<1>8. CASE DropFuture
  BY <1>8 DEF Bookkeeping, TypeOK, DropFuture, timers, tasks, stats
<1>9. CASE Tick
  BY <1>9 DEF Bookkeeping, TypeOK, Tick, Deadline, max_in_flight, timers, tasks, stats
<1>10. ASSUME NEW s \in Slots, Start(s) PROVE Bookkeeping'
  <2>1. PICK m \in Members : Try(s, m)
    BY <1>10 DEF Start
  <2> QED
    BY <1>10, <2>1 DEF Bookkeeping, TypeOK, Start, Try, Deadline, max_in_flight, timers
<1>11. ASSUME NEW s \in Slots, MemberOk(s) PROVE Bookkeeping'
  BY <1>11 DEF Bookkeeping, TypeOK, MemberOk, End, Deadline, max_in_flight, timers
<1>12. ASSUME NEW s \in Slots, MemberErr(s) PROVE Bookkeeping'
  <2>1. ASSUME NEW m \in Members, Try(s, m) PROVE Bookkeeping'
    BY <1>12, <2>1 DEF Bookkeeping, TypeOK, MemberErr, Try, Deadline, max_in_flight, timers
  <2>2. CASE End(s, "err")
    BY <1>12, <2>2 DEF Bookkeeping, TypeOK, MemberErr, End, Deadline, max_in_flight, timers
  <2> QED
    BY <1>12, <2>1, <2>2, Zenon DEF MemberErr
<1>13. ASSUME NEW s \in Slots, Cancel(s) PROVE Bookkeeping'
  BY <1>13 DEF Bookkeeping, TypeOK, Cancel, DropGuard, End, Deadline, max_in_flight, timers
<1>14. ASSUME NEW s \in Slots, Panic(s) PROVE Bookkeeping'
  BY <1>14 DEF Bookkeeping, TypeOK, Panic, DropGuard, End, Deadline, max_in_flight, timers
<1>15. CASE UNCHANGED vars
  BY <1>15 DEF Bookkeeping, vars, max_in_flight, timers, tasks, stats
<1> QED
  BY <1>1, <1>2, <1>3, <1>4, <1>5, <1>6, <1>7, <1>8, <1>9, <1>10, <1>11, <1>12, <1>13,
     <1>14, <1>15, SMTT(30) DEF Next, EngineStep, TaskStep

\* It holds when resolve_attributed has launched its first attempt (hedged.rs).
LEMMA BookkeepingInitial == Init => Bookkeeping
<1> USE HedgedAssumption DEF HedgedAssumption
<1> SUFFICES ASSUME Init PROVE Bookkeeping
  OBVIOUS
<1>1. PICK s \in Slots : /\ attempts = {s}
                        /\ pc = [t \in Slots |-> IF t = s THEN "queued" ELSE "free"]
  BY DEF Init
<1>2. Cardinality(attempts) = 1 /\ attempts = {t \in Slots : pc[t] # "free"}
  BY <1>1, FS_Singleton
<1> QED
  BY <1>1, <1>2 DEF Init, Bookkeeping, max_in_flight

\* The bookkeeping is exact in every reachable state.
THEOREM Bookkept == Spec => []Bookkeeping
<1>1. TypeOK /\ Bookkeeping /\ [Next]_vars => Bookkeeping'
  BY BookkeepingInductive
<1> QED
  BY BookkeepingInitial, TypeCorrect, <1>1, PTL DEF Spec

\* in_flight is the number of tasks in the JoinSet, within the cap, one in
\* serial mode: the expect on join_next cannot panic (hedged.rs).
THEOREM InFlightCorrect == Spec => []InFlightExact
<1>1. Bookkeeping => InFlightExact
  BY DEF Bookkeeping, InFlightExact
<1> QED
  BY Bookkept, <1>1, PTL

\* Nothing of a resolution outlives its return (stop_attempts, hedged.rs).
THEOREM NoLeftovers == Spec => []NothingLeftRunning
<1>1. Bookkeeping => NothingLeftRunning
  BY DEF Bookkeeping, NothingLeftRunning
<1> QED
  BY Bookkept, <1>1, PTL
-----------------------------------------------------------------------------
\* The armed AttemptGuards of a member can be counted (group.rs).
LEMMA ArmedFinite ==
  ASSUME NEW m PROVE IsFiniteSet(Armed(m)) /\ Cardinality(Armed(m)) \in Nat
<1>1. Armed(m) \in SUBSET Slots
  BY DEF Armed
<1> QED
  BY <1>1, HedgedAssumption, FS_Subset, FS_CardinalityType DEF HedgedAssumption

\* Every try of a member stays accounted for: one verdict, one waiver, or
\* still waiting (try_member and AttemptGuard, group.rs).
LEMMA AccountingInductive ==
  ASSUME TypeOK, Bookkeeping, TriesAccounted, [Next]_vars
  PROVE  TriesAccounted'
<1> USE HedgedAssumption DEF HedgedAssumption
<1> DEFINE Balanced(m) == started[m] = Verdicts(m) + waived[m] + Cardinality(Armed(m))
<1> SUFFICES ASSUME NEW m \in Members PROVE Balanced(m)'
  BY DEF TriesAccounted
<1>0. Balanced(m) /\ IsFiniteSet(Armed(m)) /\ Cardinality(Armed(m)) \in Nat
  BY ArmedFinite DEF TriesAccounted
\* A step that neither begins nor ends a try.
<1>a. ASSUME UNCHANGED <<started, successes, soft_fails, timeouts, waived>>,
             \A s \in Slots : pc'[s] = "trying" <=> pc[s] = "trying",
             \A s \in Slots : pc[s] = "trying" => current'[s] = current[s]
      PROVE  Balanced(m)'
  <2>1. Armed(m)' = Armed(m)
    BY <1>a DEF Armed
  <2> QED
    BY <1>0, <1>a, <2>1 DEF Verdicts
\* A step that ends a try and records it in one of the tables.
<1>b. ASSUME NEW s \in Slots, pc[s] = "trying", NEW state \in Finished, End(s, state),
             \/ /\ successes' = [successes EXCEPT ![current[s]] = @ + 1]
                /\ UNCHANGED <<soft_fails, timeouts, waived>>
             \/ /\ soft_fails' = [soft_fails EXCEPT ![current[s]] = @ + 1]
                /\ UNCHANGED <<successes, timeouts, waived>>
             \/ DropGuard(s) /\ UNCHANGED <<successes, soft_fails>>
      PROVE  Balanced(m)'
  <2>1. CASE current[s] = m
    <3>1. Armed(m)' = Armed(m) \ {s} /\ s \in Armed(m)
      BY <1>b, <2>1 DEF Armed, End, TypeOK, Finished
    <3>2. Cardinality(Armed(m)') = Cardinality(Armed(m)) - 1
      BY <1>0, <3>1, FS_RemoveElement, ZenonT(30)
    <3> QED
      BY <1>0, <1>b, <2>1, <3>2, SMTT(40) DEF Verdicts, End, DropGuard, TypeOK
  <2>2. CASE current[s] # m
    <3>1. Armed(m)' = Armed(m)
      BY <1>b, <2>2 DEF Armed, End, TypeOK, Finished
    <3> QED
      BY <1>0, <1>b, <2>2, <3>1 DEF Verdicts, End, DropGuard, TypeOK
  <2> QED
    BY <2>1, <2>2
<1>1. ASSUME NEW s \in Slots, JoinOk(s) PROVE Balanced(m)'
  BY <1>1, <1>a DEF JoinOk, stats, TypeOK
<1>2. ASSUME NEW s \in Slots, JoinErr(s) PROVE Balanced(m)'
  BY <1>2, <1>a DEF JoinErr, JoinErrWith, stats, TypeOK
<1>3. ASSUME NEW s \in Slots, Reap(s) PROVE Balanced(m)'
  BY <1>3, <1>a DEF Reap, stats, TypeOK, Finished
<1>4. CASE Expire \/ Return \/ DropFuture \/ Tick \/ UNCHANGED vars
  BY <1>4, <1>a, Zenon DEF Expire, Return, DropFuture, Tick, vars, tasks, stats
<1>5. CASE Hedge \/ Retry
  <2>1. CASE Spawn
    BY <1>5, <1>a, <2>1, Zenon DEF Hedge, Retry, Spawn, stats, TypeOK
  <2>2. CASE UNCHANGED tasks
    BY <1>5, <1>a, <2>2 DEF Hedge, Retry, tasks, stats
  <2> QED
    BY <1>5, <2>1, <2>2, Zenon DEF Hedge, Retry, tasks
<1>6. ASSUME NEW s \in Slots, Start(s) PROVE Balanced(m)'
  <2>1. PICK n \in Members : Try(s, n)
    BY <1>6 DEF Start
  <2>2. CASE n = m
    <3>1. Armed(m)' = Armed(m) \cup {s} /\ s \notin Armed(m)
      BY <1>6, <2>1, <2>2 DEF Armed, Start, Try, TypeOK
    <3>2. Cardinality(Armed(m)') = Cardinality(Armed(m)) + 1
      BY <1>0, <3>1, FS_AddElement, Zenon
    <3> QED
      BY <1>0, <1>6, <2>1, <2>2, <3>2, SMTT(30) DEF Verdicts, Start, Try, TypeOK
  <2>3. CASE n # m
    <3>1. Armed(m)' = Armed(m)
      BY <1>6, <2>1, <2>3 DEF Armed, Start, Try, TypeOK
    <3> QED
      BY <1>0, <1>6, <2>1, <2>3, <3>1 DEF Verdicts, Start, Try, TypeOK
  <2> QED
    BY <2>2, <2>3
<1>7. ASSUME NEW s \in Slots, MemberOk(s) PROVE Balanced(m)'
  BY <1>7, <1>b, Zenon DEF MemberOk, Finished
<1>8. ASSUME NEW s \in Slots, MemberErr(s) PROVE Balanced(m)'
  <2>1. CASE End(s, "err")
    BY <1>8, <2>1, <1>b, Zenon DEF MemberErr, Finished
  <2>2. ASSUME NEW n \in Members \ tried[s], Try(s, n) PROVE Balanced(m)'
    <3>1. CASE n = m /\ current[s] = m
      <4>1. Armed(m)' = Armed(m)
        BY <1>8, <2>2, <3>1, SMTT(30) DEF Armed, MemberErr, Try, TypeOK
      <4> QED
        BY <1>0, <1>8, <2>2, <3>1, <4>1, SMTT(30) DEF Verdicts, MemberErr, Try, TypeOK
    <3>2. CASE n = m /\ current[s] # m
      <4>1. Armed(m)' = Armed(m) \cup {s} /\ s \notin Armed(m)
        BY <1>8, <2>2, <3>2 DEF Armed, MemberErr, Try, TypeOK
      <4>2. Cardinality(Armed(m)') = Cardinality(Armed(m)) + 1
        BY <1>0, <4>1, FS_AddElement, Zenon
      <4> QED
        BY <1>0, <1>8, <2>2, <3>2, <4>2, SMTT(30) DEF Verdicts, MemberErr, Try, TypeOK
    <3>3. CASE n # m /\ current[s] = m
      <4>1. Armed(m)' = Armed(m) \ {s} /\ s \in Armed(m)
        BY <1>8, <2>2, <3>3 DEF Armed, MemberErr, Try, TypeOK
      <4>a. Cardinality(Armed(m) \ {s}) = Cardinality(Armed(m)) - 1
        BY <1>0, <4>1, FS_RemoveElement, Zenon
      <4>2. Cardinality(Armed(m)') = Cardinality(Armed(m)) - 1
        BY <4>1, <4>a
      <4> QED
        BY <1>0, <1>8, <2>2, <3>3, <4>2, SMTT(30) DEF Verdicts, MemberErr, Try, TypeOK
    <3>4. CASE n # m /\ current[s] # m
      <4>1. Armed(m)' = Armed(m)
        BY <1>8, <2>2, <3>4 DEF Armed, MemberErr, Try, TypeOK
      <4> QED
        BY <1>0, <1>8, <2>2, <3>4, <4>1, Zenon DEF Verdicts, MemberErr, Try, TypeOK
    <3> QED
      BY <3>1, <3>2, <3>3, <3>4, Zenon
  <2> QED
    BY <1>8, <2>1, <2>2, Zenon DEF MemberErr
<1>9. ASSUME NEW s \in Slots, Cancel(s) PROVE Balanced(m)'
  <2>1. CASE pc[s] = "trying" /\ DropGuard(s)
    BY <1>9, <1>b, <2>1, Zenon DEF Cancel, Finished
  <2>2. CASE pc[s] = "queued" /\ UNCHANGED <<timeouts, waived>>
    BY <1>9, <1>a, <2>2 DEF Cancel, End, TypeOK
  <2> QED
    BY <1>9, <2>1, <2>2, Zenon DEF Cancel
<1>10. ASSUME NEW s \in Slots, Panic(s) PROVE Balanced(m)'
  BY <1>10, <1>b DEF Panic, Finished
<1> QED
  BY <1>1, <1>2, <1>3, <1>4, <1>5, <1>6, <1>7, <1>8, <1>9, <1>10, Zenon
     DEF Next, EngineStep, TaskStep

\* Every try of a member ends in exactly one verdict, whoever ends it: the
\* member, a panic, the budget, a winning sibling or a dropped future
\* (try_member and AttemptGuard, group.rs).
THEOREM AccountingCorrect == Spec => []TriesAccounted
<1>1. Init => TriesAccounted
  <2> SUFFICES ASSUME Init, NEW m \in Members
               PROVE  started[m] = Verdicts(m) + waived[m] + Cardinality(Armed(m))
    BY DEF TriesAccounted
  <2>1. Armed(m) = {}
    BY DEF Init, Armed
  <2> QED
    BY <2>1, FS_EmptySet DEF Init, Verdicts, Zero
<1>2. TypeOK /\ Bookkeeping /\ TriesAccounted /\ [Next]_vars => TriesAccounted'
  BY AccountingInductive
<1> QED
  BY TypeCorrect, Bookkept, <1>1, <1>2, PTL DEF Spec

\* A failed query leaves every try it made in the members' statistics
\* (AttemptGuard, group.rs): nothing was waived, and nothing is pending.
THEOREM FailureIsSeen == Spec => []NoSilentFailure
<1>1. TypeOK /\ Bookkeeping /\ TriesAccounted => NoSilentFailure
  <2> SUFFICES ASSUME TypeOK, Bookkeeping, TriesAccounted, engine = "err", NEW m \in Members
               PROVE  started[m] = Verdicts(m)
    BY DEF NoSilentFailure
  <2>1. Armed(m) = {} /\ waived[m] = 0
    BY DEF Bookkeeping, Armed, Zero
  <2>2. started[m] = Verdicts(m) + 0 + 0
    BY <2>1, FS_EmptySet DEF TriesAccounted
  <2>3. Verdicts(m) \in Nat
    BY DEF Verdicts, TypeOK
  <2> QED
    BY <2>2, <2>3
<1> QED
  BY TypeCorrect, Bookkept, AccountingCorrect, <1>1, PTL

\* Once an answer is accepted no member is charged with a timeout
\* (QUERY_SUCCEEDED is set before stop_attempts runs, hedged.rs).
THEOREM LosersGoFree == Spec => LosersNotCharged
<1>1. Bookkeeping /\ [Next]_vars => [answered # None => timeouts' = timeouts]_vars
  <2> SUFFICES ASSUME Bookkeeping, Next, answered # None PROVE timeouts' = timeouts
    OBVIOUS
  <2>1. succeeded
    BY DEF Bookkeeping
  <2>2. CASE EngineStep \/ DropFuture \/ Tick
    BY <2>2, Zenon DEF EngineStep, JoinOk, JoinErr, JoinErrWith, Reap, Expire, Hedge, Retry, Return,
         DropFuture, Tick, stats
  <2>3. ASSUME NEW s \in Slots, TaskStep(s) PROVE timeouts' = timeouts
    BY <2>1, <2>3, Zenon DEF TaskStep, Start, MemberOk, MemberErr, Cancel, Panic, DropGuard
  <2> QED
    BY <2>2, <2>3 DEF Next
<1> QED
  BY Bookkept, <1>1, PTL DEF Spec, LosersNotCharged

\* No attempt is launched once the budget is used up (the deadline branch of
\* the biased select comes before both launching branches, hedged.rs).
THEOREM BudgetedLaunches == Spec => NoLaunchPastBudget
<1>1. TypeOK /\ [Next]_vars =>
        [(\E s \in Slots : pc[s] = "free" /\ pc'[s] = "queued") => now < Deadline]_vars
  <2> SUFFICES ASSUME TypeOK, Next, NEW t \in Slots, pc[t] = "free", pc'[t] = "queued"
               PROVE  now < Deadline
    OBVIOUS
  <2>1. CASE Hedge \/ Retry
    BY <2>1, HedgedAssumption
       DEF HedgedAssumption, Hedge, Retry, DeadlineReady, Deadline, TypeOK
  <2>2. CASE Expire \/ Return \/ DropFuture \/ Tick
    BY <2>2, SMTT(30) DEF Expire, Return, DropFuture, Tick, tasks
  <2>3. ASSUME NEW s \in Slots, JoinOk(s) \/ JoinErr(s) \/ Reap(s) PROVE FALSE
    BY <2>3 DEF JoinOk, JoinErr, JoinErrWith, Reap, TypeOK
  <2>4. ASSUME NEW s \in Slots, TaskStep(s) PROVE FALSE
    BY <2>4, Zenon DEF TaskStep, Start, MemberOk, MemberErr, Cancel, Panic, End, Try, TypeOK
  <2> QED
    BY <2>1, <2>2, <2>3, <2>4 DEF Next, EngineStep
<1> QED
  BY TypeCorrect, <1>1, PTL DEF Spec, NoLaunchPastBudget

\* Serial retries keep the floor's distance (RETRY_FLOOR, hedged.rs).
THEOREM SerialRetriesThrottled == Spec => RetriesThrottled
<1>1. TypeOK /\ Bookkeeping /\ [Next]_vars =>
        [interval = 0 /\ in_flight' > in_flight => now >= last_spawn + RETRY_FLOOR]_vars
  <2> SUFFICES ASSUME TypeOK, Bookkeeping, Next, interval = 0, in_flight' > in_flight
               PROVE  now >= last_spawn + RETRY_FLOOR
    OBVIOUS
  <2>1. CASE Retry
    BY <2>1, HedgedAssumption DEF HedgedAssumption, Retry, RetryReady, Bookkeeping, TypeOK
  <2>2. CASE Hedge
    BY <2>2 DEF Hedge, HedgeReady
  <2>3. CASE Expire \/ Return \/ DropFuture \/ Tick
    BY <2>3, SMTT(30) DEF Expire, Return, DropFuture, Tick, TypeOK
  <2>4. ASSUME NEW s \in Slots, JoinOk(s) \/ JoinErr(s) \/ Reap(s) PROVE FALSE
    BY <2>4, SMTT(30) DEF JoinOk, JoinErr, JoinErrWith, Reap, TypeOK
  <2>5. ASSUME NEW s \in Slots, TaskStep(s) PROVE FALSE
    BY <2>5, SMTT(40) DEF TaskStep, Start, MemberOk, MemberErr, Cancel, Panic, TypeOK
  <2> QED
    BY <2>1, <2>2, <2>3, <2>4, <2>5 DEF Next, EngineStep
<1> QED
  BY TypeCorrect, Bookkept, <1>1, PTL DEF Spec, RetriesThrottled
-----------------------------------------------------------------------------
\* The engine implements the safety part of Budget: it gives up only once the
\* budget is used up, and a verdict, once reached, stands.
THEOREM BudgetImplemented == Spec => B!BudgetSafety
<1> USE HedgedAssumption DEF HedgedAssumption
<1>1. Init => B!BudgetInit
  BY DEF Init, B!BudgetInit, verdict
<1>2. TypeOK /\ Bookkeeping /\ [Next]_vars => [B!BudgetNext]_<<now, verdict>>
  <2> SUFFICES ASSUME TypeOK, Bookkeeping, [Next]_vars
               PROVE  B!BudgetNext \/ UNCHANGED <<now, verdict>>
    OBVIOUS
  <2>1. CASE Return
    BY <2>1 DEF Return, Bookkeeping, verdict, Deadline, B!BudgetNext, B!Answer, B!GiveUp
  <2>2. CASE DropFuture
    BY <2>2 DEF DropFuture, verdict, B!BudgetNext, B!Abandon
  <2>3. CASE Tick
    BY <2>3 DEF Tick, verdict, TypeOK, B!BudgetNext, B!Elapse
  <2>4. CASE Expire \/ Hedge \/ Retry \/ UNCHANGED vars
    BY <2>4 DEF Expire, Hedge, Retry, vars, verdict
  <2>5. ASSUME NEW s \in Slots, JoinOk(s) \/ JoinErr(s) \/ Reap(s)
        PROVE  UNCHANGED <<now, verdict>>
    BY <2>5, Zenon DEF JoinOk, JoinErr, JoinErrWith, Reap, verdict
  <2>6. ASSUME NEW s \in Slots, TaskStep(s) PROVE UNCHANGED <<now, verdict>>
    BY <2>6, Zenon DEF TaskStep, Start, MemberOk, MemberErr, Cancel, Panic, verdict
  <2> QED
    BY <2>1, <2>2, <2>3, <2>4, <2>5, <2>6 DEF Next, EngineStep
<1> QED
  BY TypeCorrect, Bookkept, <1>1, <1>2, PTL DEF Spec, B!BudgetSafety, B!budgetVars
=============================================================================
